---- MODULE Spec2Model ----
(***************************************************************************)
(* Model of the protobuf wire codec of x/evm/txs/support/evm.pb.go:        *)
(* Marshal / MarshalToSizedBuffer / Size / Unmarshal of the eight record   *)
(* types and the shared helpers encodeVarintEvm, sovEvm and skipEvm.       *)
(*                                                                         *)
(* A Go string or []byte is a sequence of bytes 0..255; a nil slice and an *)
(* empty slice are both the empty sequence.  A pointer is a sequence of    *)
(* length 0 (nil) or 1.  A 64-bit integer is kept bit-exact as ten 7-bit   *)
(* groups, least significant first, the tenth group holding bit 63 only;   *)
(* an int32 is five groups, the fifth holding bits 28..31.                 *)
(***************************************************************************)
EXTENDS Integers, Sequences, FiniteSets, TLC

\* ------------------------------------------------------------ bounds

\* at most this many fields of an input record differ from the zero value
MaxSet == 2

\* ------------------------------------------------------------ errors

ErrNil == "nil"
ErrUnexpectedEOF == "io.ErrUnexpectedEOF"
ErrInvalidLengthEvm == "proto: negative length found during unmarshaling"
ErrIntOverflowEvm == "proto: integer overflow"
ErrUnexpectedEndOfGroupEvm == "proto: unexpected end of group"
ErrEndGroupNonGroup == "proto: wiretype end group for non-group"
ErrIllegalTag == "proto: illegal tag"
ErrWrongWireType == "proto: wrong wireType"
ErrIllegalWireType == "proto: illegal wireType"
ErrIntText == "math/big: cannot unmarshal"
ErrPanic == "panic"

\* ------------------------------------------------------------ 64-bit words

Zero64 == <<0, 0, 0, 0, 0, 0, 0, 0, 0, 0>>

\* uint64(n) for 0 <= n < 2^31
U64(n) ==
  << n % 128, (n \div 128) % 128, (n \div 16384) % 128, (n \div 2097152) % 128,
     n \div 268435456, 0, 0, 0, 0, 0 >>

Not64(u) ==
  << 127 - u[1], 127 - u[2], 127 - u[3], 127 - u[4], 127 - u[5], 127 - u[6],
     127 - u[7], 127 - u[8], 127 - u[9], 1 - u[10] >>

\* int64(n) in two's complement for -2^31 <= n < 2^31
I64(n) == IF n >= 0 THEN U64(n) ELSE Not64(U64(-(n + 1)))

\* int32(n) for -2^31 <= n < 2^31: five groups, the fifth of four bits
I32(n) ==
  LET abs == IF n >= 0 THEN n ELSE -(n + 1)
      g == << abs % 128, (abs \div 128) % 128, (abs \div 16384) % 128,
              (abs \div 2097152) % 128, abs \div 268435456 >>
  IN IF n >= 0 THEN g ELSE << 127 - g[1], 127 - g[2], 127 - g[3], 127 - g[4], 15 - g[5] >>

Zero32 == <<0, 0, 0, 0, 0>>

\* uint64(v) of an int32 v: sign extension
SignExtend32(v) ==
  IF v[5] >= 8
    THEN << v[1], v[2], v[3], v[4], v[5] + 112, 127, 127, 127, 127, 1 >>
    ELSE << v[1], v[2], v[3], v[4], v[5], 0, 0, 0, 0, 0 >>

\* int32(u) of a 64-bit u: the low 32 bits
Trunc32(u) == << u[1], u[2], u[3], u[4], u[5] % 16 >>

IsNeg64(u) == u[10] = 1
IsSmall(u) == \A k \in 5..10 : u[k] = 0
Small(u) == u[1] + 128 * u[2] + 16384 * u[3] + 2097152 * u[4]
IsZero64(u) == \A k \in 1..10 : u[k] = 0
Ge128(u) == \E k \in 2..10 : u[k] # 0
Shr7(u) == << u[2], u[3], u[4], u[5], u[6], u[7], u[8], u[9], u[10], 0 >>

\* a + b modulo 2^64
RECURSIVE AddFrom(_, _, _, _)
AddFrom(a, b, k, carry) ==
  IF k > 10 THEN <<>>
  ELSE LET s == a[k] + b[k] + carry
           base == IF k = 10 THEN 2 ELSE 128
       IN <<s % base>> \o AddFrom(a, b, k + 1, s \div base)
Add64(a, b) == AddFrom(a, b, 1, 0)

\* bitwise or of two 7-bit groups
RECURSIVE Or7(_, _)
Or7(a, b) ==
  IF a = 0 THEN b
  ELSE IF b = 0 THEN a
  ELSE (IF a % 2 = 1 \/ b % 2 = 1 THEN 1 ELSE 0) + 2 * Or7(a \div 2, b \div 2)

\* v | (g << shift) for a 7-bit g and shift a multiple of 7 below 64, in 64 bits
OrShift(v, g, shift) ==
  LET k == (shift \div 7) + 1
  IN [v EXCEPT ![k] = Or7(v[k], IF k = 10 THEN g % 2 ELSE g)]

\* math/bits.Len64
RECURSIVE BitLen(_)
BitLen(g) == IF g = 0 THEN 0 ELSE 1 + BitLen(g \div 2)
Len64(x) ==
  IF IsZero64(x) THEN 0
  ELSE LET h == CHOOSE k \in 1..10 : x[k] # 0 /\ \A j \in (k + 1)..10 : x[j] = 0
       IN 7 * (h - 1) + BitLen(x[h])

\* faulty variant of sovEvm: the length in 8-bit bytes
sovEvm_Bytes(x) ==
  LET x1 == [x EXCEPT ![1] = Or7(x[1], 1)]
  IN (Len64(x1) + 7) \div 8

sovEvm(x) ==
  LET x1 == [x EXCEPT ![1] = Or7(x[1], 1)]
  IN (Len64(x1) + 6) \div 7

\* ------------------------------------------------------------ the output buffer

\* The element of a one-element set.  Only({e : r \in {v}}) is e with r
\* standing for v, the value of v being computed once.
Only(S) == CHOOSE e \in S : TRUE

\* A buffer being filled from its end: d the bytes, i the write index
\* (0-based, as in the source), ok FALSE once a write fell outside it.  A write
\* outside the buffer panics, so nothing is written to a buffer that is not ok.
RECURSIVE Zeros(_)
Zeros(n) == IF n = 0 THEN <<>> ELSE <<0>> \o Zeros(n - 1)
NewBuf(size) == [d |-> Zeros(size), i |-> size, ok |-> TRUE]

Store(s, idx, b) ==
  IF ~s.ok \/ idx < 0 \/ idx >= Len(s.d)
    THEN [s EXCEPT !.ok = FALSE]
    ELSE [s EXCEPT !.d = SubSeq(s.d, 1, idx) \o <<b>> \o SubSeq(s.d, idx + 2, Len(s.d))]

RECURSIVE WriteVarint(_, _, _)
WriteVarint(s, offset, v) ==
  IF ~s.ok THEN s
  ELSE IF Ge128(v)
    THEN WriteVarint(Store(s, offset, v[1] + 128), offset + 1, Shr7(v))
    ELSE Store(s, offset, v[1])

\* i = encodeVarintEvm(dAtA, i, v)
encodeVarintEvm(s, v) ==
  IF ~s.ok THEN s
  ELSE [WriteVarint(s, s.i - sovEvm(v), v) EXCEPT !.i = s.i - sovEvm(v)]

\* i--; dAtA[i] = b
PutByte(s, b) == IF ~s.ok THEN s ELSE Store([s EXCEPT !.i = s.i - 1], s.i - 1, b)

\* i -= len(bs); copy(dAtA[i:], bs)
PutBytes(s, bs) ==
  LET i2 == s.i - Len(bs)
  IN IF ~s.ok \/ i2 < 0 \/ i2 > Len(s.d)
       THEN [s EXCEPT !.ok = FALSE, !.i = i2]
       ELSE [s EXCEPT !.i = i2,
                      !.d = SubSeq(s.d, 1, i2) \o bs \o SubSeq(s.d, i2 + Len(bs) + 1, Len(s.d))]

\* the tag bytes, written last byte first
RECURSIVE PutTag(_, _)
PutTag(s, tag) ==
  IF ~s.ok \/ tag = <<>> THEN s
  ELSE PutTag(PutByte(s, tag[Len(tag)]), SubSeq(tag, 1, Len(tag) - 1))

\* a string or bytes field: emitted when non-empty
PutString(s, tag, str) ==
  IF s.ok /\ Len(str) > 0
    THEN PutTag(encodeVarintEvm(PutBytes(s, str), U64(Len(str))), tag)
    ELSE s

\* a bool field: emitted when true
PutBool(s, tag, b) == IF s.ok /\ b THEN PutTag(PutByte(s, 1), tag) ELSE s

\* a uint64 field: emitted when non-zero
PutUint64(s, tag, v) ==
  IF s.ok /\ ~IsZero64(v) THEN PutTag(encodeVarintEvm(s, v), tag) ELSE s

\* every element of a repeated string field, last element first
RECURSIVE PutStrings(_, _, _)
PutStrings(s, tag, strs) ==
  IF ~s.ok \/ Len(strs) = 0 THEN s
  ELSE PutStrings(PutTag(encodeVarintEvm(PutBytes(s, strs[Len(strs)]),
                                         U64(Len(strs[Len(strs)]))), tag),
                  tag, SubSeq(strs, 1, Len(strs) - 1))

\* size of a string or bytes field of length l behind a tag of tagLen bytes
SizeBytes(tagLen, l) == IF l > 0 THEN tagLen + l + sovEvm(U64(l)) ELSE 0
\* faulty variant of SizeBool: a false bool is counted too
SizeBool_Always(b) == 2

SizeBool(b) == IF b THEN 2 ELSE 0
SizeUint64(v) == IF ~IsZero64(v) THEN 1 + sovEvm(v) ELSE 0
RECURSIVE SizeStrings(_)
SizeStrings(strs) ==
  IF Len(strs) = 0 THEN 0
  ELSE 1 + Len(strs[1]) + sovEvm(U64(Len(strs[1]))) + SizeStrings(Tail(strs))

\* ------------------------------------------------------------ cosmossdk_io_math.Int

\* The customtype of the ChainConfig block fields.  A value is
\* [bigNil |-> the inner *big.Int is nil, v |-> the integer]; its wire payload
\* is the decimal text of the integer (big.Int.MarshalText).
IntOf(n) == [bigNil |-> FALSE, v |-> n]
IntZeroValue == [bigNil |-> TRUE, v |-> 0]

RECURSIVE Digits(_)
Digits(n) == IF n < 10 THEN <<48 + n>> ELSE Digits(n \div 10) \o <<48 + (n % 10)>>

\* Int.Marshal: a nil inner value is marshalled as 0
IntMarshal(x) ==
  IF x.bigNil THEN <<48>>
  ELSE IF x.v < 0 THEN <<45>> \o Digits(-x.v) ELSE Digits(x.v)

IntSize(x) == Len(IntMarshal(x))

RECURSIVE ParseDigits(_, _)
ParseDigits(bs, acc) ==
  IF bs = <<>> THEN acc ELSE ParseDigits(Tail(bs), 10 * acc + (bs[1] - 48))

\* Int.Unmarshal: empty data leaves the zero value; decimal text sets the value.
\* Text in another base, with a leading zero, a plus sign or underscores is
\* outside the model and reported as an error.
IntUnmarshal(data) ==
  IF Len(data) = 0 THEN [err |-> ErrNil, x |-> IntZeroValue]
  ELSE LET neg == data[1] = 45
           ds == IF neg THEN Tail(data) ELSE data
           good == /\ Len(ds) > 0
                   /\ \A k \in 1..Len(ds) : ds[k] \in 48..57
                   /\ (Len(ds) > 1 => ds[1] # 48)
       IN IF good
            THEN [err |-> ErrNil,
                  x |-> IntOf(IF neg THEN -ParseDigits(ds, 0) ELSE ParseDigits(ds, 0))]
            ELSE [err |-> ErrIntText, x |-> IntOf(0)]

\* size := p.Size(); i -= size; p.MarshalTo(dAtA[i:]); i = encodeVarintEvm(...); tag
PutInt(s, tag, p) ==
  IF s.ok /\ p # <<>>
    THEN PutTag(encodeVarintEvm(PutBytes(s, IntMarshal(p[1])), U64(IntSize(p[1]))), tag)
    ELSE s

\* faulty variant of SizeInt: every tag is counted as one byte
SizeInt_OneByteTag(tagLen, p) ==
  IF p # <<>> THEN 1 + IntSize(p[1]) + sovEvm(U64(IntSize(p[1]))) ELSE 0

SizeInt(tagLen, p) ==
  IF p # <<>>
    THEN LET l == IntSize(p[1]) IN tagLen + l + sovEvm(U64(l))
    ELSE 0

\* ------------------------------------------------------------ the record types

Types == {"Params", "ChainConfig", "State", "TransactionLogs", "Log", "TxResult",
          "AccessTuple", "TraceConfig"}

ZeroChainConfig ==
  [HomesteadBlock |-> <<>>, DAOForkBlock |-> <<>>, DAOForkSupport |-> FALSE,
   EIP150Block |-> <<>>, EIP150Hash |-> <<>>, EIP155Block |-> <<>>,
   EIP158Block |-> <<>>, ByzantiumBlock |-> <<>>, ConstantinopleBlock |-> <<>>,
   PetersburgBlock |-> <<>>, IstanbulBlock |-> <<>>, MuirGlacierBlock |-> <<>>,
   BerlinBlock |-> <<>>, LondonBlock |-> <<>>, ArrowGlacierBlock |-> <<>>,
   GrayGlacierBlock |-> <<>>, MergeNetsplitBlock |-> <<>>, ShanghaiBlock |-> <<>>,
   CancunBlock |-> <<>>]

ZeroParams ==
  [EvmDenom |-> <<>>, EnableCreate |-> FALSE, EnableCall |-> FALSE, ExtraEIPs |-> <<>>,
   ChainConfig |-> ZeroChainConfig, AllowUnprotectedTxs |-> FALSE]

ZeroState == [Key |-> <<>>, Value |-> <<>>]

ZeroTransactionLogs == [Hash |-> <<>>, Logs |-> <<>>]

ZeroLog ==
  [Address |-> <<>>, Topics |-> <<>>, Data |-> <<>>, BlockNumber |-> Zero64,
   TxHash |-> <<>>, TxIndex |-> Zero64, BlockHash |-> <<>>, Index |-> Zero64,
   Removed |-> FALSE]

ZeroTxResult ==
  [ContractAddress |-> <<>>, Bloom |-> <<>>, TxLogs |-> ZeroTransactionLogs,
   Ret |-> <<>>, Reverted |-> FALSE, GasUsed |-> Zero64]

ZeroAccessTuple == [Address |-> <<>>, StorageKeys |-> <<>>]

ZeroTraceConfig ==
  [Tracer |-> <<>>, Timeout |-> <<>>, Reexec |-> Zero64, DisableStack |-> FALSE,
   DisableStorage |-> FALSE, Debug |-> FALSE, Limit |-> Zero32, Overrides |-> <<>>,
   EnableMemory |-> FALSE, EnableReturnData |-> FALSE, TracerJsonConfig |-> <<>>]

\* the value of a fresh record of type T
Zero(T) ==
  CASE T = "Params" -> ZeroParams
    [] T = "ChainConfig" -> ZeroChainConfig
    [] T = "State" -> ZeroState
    [] T = "TransactionLogs" -> ZeroTransactionLogs
    [] T = "Log" -> ZeroLog
    [] T = "TxResult" -> ZeroTxResult
    [] T = "AccessTuple" -> ZeroAccessTuple
    [] T = "TraceConfig" -> ZeroTraceConfig

\* ------------------------------------------------------------ Size

ChainConfigSize(m) ==
    SizeInt(1, m.HomesteadBlock)
  + SizeInt(1, m.DAOForkBlock)
  + SizeBool(m.DAOForkSupport)
  + SizeInt(1, m.EIP150Block)
  + SizeBytes(1, Len(m.EIP150Hash))
  + SizeInt(1, m.EIP155Block)
  + SizeInt(1, m.EIP158Block)
  + SizeInt(1, m.ByzantiumBlock)
  + SizeInt(1, m.ConstantinopleBlock)
  + SizeInt(1, m.PetersburgBlock)
  + SizeInt(1, m.IstanbulBlock)
  + SizeInt(1, m.MuirGlacierBlock)
  + SizeInt(1, m.BerlinBlock)
  + SizeInt(2, m.LondonBlock)
  + SizeInt(2, m.ArrowGlacierBlock)
  + SizeInt(2, m.GrayGlacierBlock)
  + SizeInt(2, m.MergeNetsplitBlock)
  + SizeInt(2, m.ShanghaiBlock)
  + SizeInt(2, m.CancunBlock)

\* l = sum of sovEvm(uint64(e)) over the elements
RECURSIVE PackedLen(_)
PackedLen(es) == IF Len(es) = 0 THEN 0 ELSE sovEvm(es[1]) + PackedLen(Tail(es))

\* an embedded record or a packed run of l bytes: 1 + l + sovEvm(uint64(l))
SizeMessage(l) == 1 + l + sovEvm(U64(l))

\* an int32 field: emitted when non-zero, as the varint of uint64(v)
SizeInt32(v) == IF v # Zero32 THEN 1 + sovEvm(SignExtend32(v)) ELSE 0

ParamsSize(m) ==
    SizeBytes(1, Len(m.EvmDenom))
  + SizeBool(m.EnableCreate)
  + SizeBool(m.EnableCall)
  + (IF Len(m.ExtraEIPs) > 0 THEN SizeMessage(PackedLen(m.ExtraEIPs)) ELSE 0)
  + SizeMessage(ChainConfigSize(m.ChainConfig))
  + SizeBool(m.AllowUnprotectedTxs)

StateSize(m) == SizeBytes(1, Len(m.Key)) + SizeBytes(1, Len(m.Value))

\* Log.Size on a *Log: 0 for a nil receiver
LogSize(p) ==
  IF p = <<>> THEN 0
  ELSE LET m == p[1]
       IN SizeBytes(1, Len(m.Address))
        + SizeStrings(m.Topics)
        + SizeBytes(1, Len(m.Data))
        + SizeUint64(m.BlockNumber)
        + SizeBytes(1, Len(m.TxHash))
        + SizeUint64(m.TxIndex)
        + SizeBytes(1, Len(m.BlockHash))
        + SizeUint64(m.Index)
        + SizeBool(m.Removed)

RECURSIVE SizeLogs(_)
SizeLogs(logs) ==
  IF Len(logs) = 0 THEN 0
  ELSE SizeMessage(LogSize(logs[1])) + SizeLogs(Tail(logs))

TransactionLogsSize(m) == SizeBytes(1, Len(m.Hash)) + SizeLogs(m.Logs)

TxResultSize(m) ==
    SizeBytes(1, Len(m.ContractAddress))
  + SizeBytes(1, Len(m.Bloom))
  + SizeMessage(TransactionLogsSize(m.TxLogs))
  + SizeBytes(1, Len(m.Ret))
  + SizeBool(m.Reverted)
  + SizeUint64(m.GasUsed)

AccessTupleSize(m) == SizeBytes(1, Len(m.Address)) + SizeStrings(m.StorageKeys)

TraceConfigSize(m) ==
    SizeBytes(1, Len(m.Tracer))
  + SizeBytes(1, Len(m.Timeout))
  + SizeUint64(m.Reexec)
  + SizeBool(m.DisableStack)
  + SizeBool(m.DisableStorage)
  + SizeBool(m.Debug)
  + SizeInt32(m.Limit)
  + (IF m.Overrides # <<>> THEN SizeMessage(ChainConfigSize(m.Overrides[1])) ELSE 0)
  + SizeBool(m.EnableMemory)
  + SizeBool(m.EnableReturnData)
  + SizeBytes(1, Len(m.TracerJsonConfig))

Size(T, m) ==
  CASE T = "Params" -> ParamsSize(m)
    [] T = "ChainConfig" -> ChainConfigSize(m)
    [] T = "State" -> StateSize(m)
    [] T = "TransactionLogs" -> TransactionLogsSize(m)
    [] T = "Log" -> LogSize(<<m>>)
    [] T = "TxResult" -> TxResultSize(m)
    [] T = "AccessTuple" -> AccessTupleSize(m)
    [] T = "TraceConfig" -> TraceConfigSize(m)

\* ------------------------------------------------------------ MarshalToSizedBuffer

\* Each takes the buffer state s (dAtA with i = len(dAtA)) and returns it after
\* the fields were written from the last field number down to the first; the
\* function's result n is the drop of i.

\* faulty variant of PutMessage: an embedded record of no bytes is left out
PutMessage_OmitEmpty(before, after, tag) ==
  IF ~after.ok THEN after
  ELSE IF before.i = after.i THEN after
  ELSE PutByte(encodeVarintEvm(after, U64(before.i - after.i)), tag)

\* An embedded record, written between the buffer states `before` and `after`:
\*   size, err := m.f.MarshalToSizedBuffer(dAtA[:i]); i -= size
\*   i = encodeVarintEvm(dAtA, i, uint64(size)); i--; dAtA[i] = tag
PutMessage(before, after, tag) ==
  IF ~after.ok THEN after
  ELSE PutByte(encodeVarintEvm(after, U64(before.i - after.i)), tag)

\* faulty variant of PutInt32: uint64(uint32(v)) in place of uint64(v)
PutInt32_ZeroExtend(s, tag, v) ==
  IF s.ok /\ v # Zero32
    THEN PutByte(encodeVarintEvm(s, << v[1], v[2], v[3], v[4], v[5], 0, 0, 0, 0, 0 >>), tag)
    ELSE s

\* an int32 field: emitted when non-zero, as the varint of uint64(v)
PutInt32(s, tag, v) ==
  IF s.ok /\ v # Zero32 THEN PutByte(encodeVarintEvm(s, SignExtend32(v)), tag) ELSE s

ChainConfigMarshalToSizedBuffer(m, s) ==
  LET s19 == PutInt(s, <<186, 1>>, m.CancunBlock)
      s18 == PutInt(s19, <<178, 1>>, m.ShanghaiBlock)
      s17 == PutInt(s18, <<170, 1>>, m.MergeNetsplitBlock)
      s16 == PutInt(s17, <<162, 1>>, m.GrayGlacierBlock)
      s15 == PutInt(s16, <<146, 1>>, m.ArrowGlacierBlock)
      s14 == PutInt(s15, <<138, 1>>, m.LondonBlock)
      s13 == PutInt(s14, <<106>>, m.BerlinBlock)
      s12 == PutInt(s13, <<98>>, m.MuirGlacierBlock)
      s11 == PutInt(s12, <<90>>, m.IstanbulBlock)
      s10 == PutInt(s11, <<82>>, m.PetersburgBlock)
      s9 == PutInt(s10, <<74>>, m.ConstantinopleBlock)
      s8 == PutInt(s9, <<66>>, m.ByzantiumBlock)
      s7 == PutInt(s8, <<58>>, m.EIP158Block)
      s6 == PutInt(s7, <<50>>, m.EIP155Block)
      s5 == PutString(s6, <<42>>, m.EIP150Hash)
      s4 == PutInt(s5, <<34>>, m.EIP150Block)
      s3 == PutBool(s4, <<24>>, m.DAOForkSupport)
      s2 == PutInt(s3, <<18>>, m.DAOForkBlock)
  IN PutInt(s2, <<10>>, m.HomesteadBlock)

\* the packed run of ExtraEIPs as built in the scratch buffer dAtA3[:j2]
RECURSIVE VarintBytes(_)
VarintBytes(num) ==
  IF Ge128(num) THEN <<num[1] + 128>> \o VarintBytes(Shr7(num)) ELSE <<num[1]>>
RECURSIVE PackedBytes(_)
PackedBytes(es) ==
  IF Len(es) = 0 THEN <<>> ELSE VarintBytes(es[1]) \o PackedBytes(Tail(es))

\* the packed field: emitted when the list is non-empty, as one tag, the
\* length of the run and the run
PutPacked(s, tag, es) ==
  IF s.ok /\ Len(es) > 0
    THEN PutByte(encodeVarintEvm(PutBytes(s, PackedBytes(es)), U64(Len(PackedBytes(es)))), tag)
    ELSE s

\* a *ChainConfig field: emitted when not nil
PutChainConfigPtr(s, tag, p) ==
  IF s.ok /\ p # <<>> THEN PutMessage(s, ChainConfigMarshalToSizedBuffer(p[1], s), tag) ELSE s

ParamsMarshalToSizedBuffer(m, s) ==
  LET s6 == PutBool(s, <<48>>, m.AllowUnprotectedTxs)
      s5 == PutMessage(s6, ChainConfigMarshalToSizedBuffer(m.ChainConfig, s6), 42)
      s4 == PutPacked(s5, 34, m.ExtraEIPs)
      s3 == PutBool(s4, <<24>>, m.EnableCall)
      s2 == PutBool(s3, <<16>>, m.EnableCreate)
  IN PutString(s2, <<10>>, m.EvmDenom)

\* faulty variant of State.MarshalToSizedBuffer: Key is written before Value,
\* so that it comes last in the stream
StateMarshalToSizedBuffer_KeyLast(m, s) ==
  PutString(PutString(s, <<10>>, m.Key), <<18>>, m.Value)

StateMarshalToSizedBuffer(m, s) ==
  LET s2 == PutString(s, <<18>>, m.Value)
  IN PutString(s2, <<10>>, m.Key)

\* Log.MarshalToSizedBuffer on a *Log: a nil receiver is dereferenced
LogMarshalToSizedBuffer(p, s) ==
  IF p = <<>> THEN [s EXCEPT !.ok = FALSE]
  ELSE LET m == p[1]
           s9 == PutBool(s, <<72>>, m.Removed)
           s8 == PutUint64(s9, <<64>>, m.Index)
           s7 == PutString(s8, <<58>>, m.BlockHash)
           s6 == PutUint64(s7, <<48>>, m.TxIndex)
           s5 == PutString(s6, <<42>>, m.TxHash)
           s4 == PutUint64(s5, <<32>>, m.BlockNumber)
           s3 == PutString(s4, <<26>>, m.Data)
           s2 == PutStrings(s3, <<18>>, m.Topics)
       IN PutString(s2, <<10>>, m.Address)

\* faulty variant of the Logs loop: the elements are written first to last
RECURSIVE PutLogs_Forward(_, _)
PutLogs_Forward(s, logs) ==
  IF ~s.ok \/ Len(logs) = 0 THEN s
  ELSE PutLogs_Forward(PutMessage(s, LogMarshalToSizedBuffer(logs[1], s), 18), Tail(logs))

\* the Logs elements, last element first
RECURSIVE PutLogs(_, _)
PutLogs(s, logs) ==
  IF ~s.ok \/ Len(logs) = 0 THEN s
  ELSE PutLogs(PutMessage(s, LogMarshalToSizedBuffer(logs[Len(logs)], s), 18),
               SubSeq(logs, 1, Len(logs) - 1))

TransactionLogsMarshalToSizedBuffer(m, s) ==
  LET s2 == PutLogs(s, m.Logs)
  IN PutString(s2, <<10>>, m.Hash)

TxResultMarshalToSizedBuffer(m, s) ==
  LET s6 == PutUint64(s, <<48>>, m.GasUsed)
      s5 == PutBool(s6, <<40>>, m.Reverted)
      s4 == PutString(s5, <<34>>, m.Ret)
      s3 == PutMessage(s4, TransactionLogsMarshalToSizedBuffer(m.TxLogs, s4), 26)
      s2 == PutString(s3, <<18>>, m.Bloom)
  IN PutString(s2, <<10>>, m.ContractAddress)

AccessTupleMarshalToSizedBuffer(m, s) ==
  LET s2 == PutStrings(s, <<18>>, m.StorageKeys)
  IN PutString(s2, <<10>>, m.Address)

TraceConfigMarshalToSizedBuffer(m, s) ==
  LET s13 == PutString(s, <<106>>, m.TracerJsonConfig)
      s12 == PutBool(s13, <<96>>, m.EnableReturnData)
      s11 == PutBool(s12, <<88>>, m.EnableMemory)
      s10 == PutChainConfigPtr(s11, 82, m.Overrides)
      s9 == PutInt32(s10, 72, m.Limit)
      s8 == PutBool(s9, <<64>>, m.Debug)
      s6 == PutBool(s8, <<48>>, m.DisableStorage)
      s5 == PutBool(s6, <<40>>, m.DisableStack)
      s3 == PutUint64(s5, <<24>>, m.Reexec)
      s2 == PutString(s3, <<18>>, m.Timeout)
  IN PutString(s2, <<10>>, m.Tracer)

MarshalToSizedBuffer(T, m, s) ==
  CASE T = "Params" -> ParamsMarshalToSizedBuffer(m, s)
    [] T = "ChainConfig" -> ChainConfigMarshalToSizedBuffer(m, s)
    [] T = "State" -> StateMarshalToSizedBuffer(m, s)
    [] T = "TransactionLogs" -> TransactionLogsMarshalToSizedBuffer(m, s)
    [] T = "Log" -> LogMarshalToSizedBuffer(<<m>>, s)
    [] T = "TxResult" -> TxResultMarshalToSizedBuffer(m, s)
    [] T = "AccessTuple" -> AccessTupleMarshalToSizedBuffer(m, s)
    [] T = "TraceConfig" -> TraceConfigMarshalToSizedBuffer(m, s)

\* Marshal: size := m.Size(); dAtA = make([]byte, size);
\* n, err := m.MarshalToSizedBuffer(dAtA[:size]); return dAtA[:n], nil
Marshal(T, m) ==
  Only({ Only({ IF ~s.ok \/ size - s.i > size \/ size - s.i < 0
                  THEN [err |-> ErrPanic, dAtA |-> <<>>, n |-> 0, size |-> size]
                  ELSE [err |-> ErrNil, dAtA |-> SubSeq(s.d, 1, size - s.i),
                        n |-> size - s.i, size |-> size]
                : s \in {MarshalToSizedBuffer(T, m, NewBuf(size))} })
         : size \in {Size(T, m)} })

\* ------------------------------------------------------------ decoding helpers

\* faulty variant of the varint loop: the end of the buffer ends the varint
RECURSIVE VarintLoop_StopAtEnd(_, _, _, _)
VarintLoop_StopAtEnd(dAtA, iNdEx, shift, v) ==
  IF shift >= 64 THEN [err |-> ErrIntOverflowEvm, v |-> v, iNdEx |-> iNdEx]
  ELSE IF iNdEx >= Len(dAtA) THEN [err |-> ErrNil, v |-> v, iNdEx |-> iNdEx]
  ELSE IF dAtA[iNdEx + 1] < 128
    THEN [err |-> ErrNil, v |-> OrShift(v, dAtA[iNdEx + 1] % 128, shift), iNdEx |-> iNdEx + 1]
    ELSE VarintLoop_StopAtEnd(dAtA, iNdEx + 1, shift + 7,
                              OrShift(v, dAtA[iNdEx + 1] % 128, shift))

\* faulty variant of the varint loop: the end of the buffer is tested first
RECURSIVE VarintLoop_EndFirst(_, _, _, _)
VarintLoop_EndFirst(dAtA, iNdEx, shift, v) ==
  IF iNdEx >= Len(dAtA) THEN [err |-> ErrUnexpectedEOF, v |-> v, iNdEx |-> iNdEx]
  ELSE IF shift >= 64 THEN [err |-> ErrIntOverflowEvm, v |-> v, iNdEx |-> iNdEx]
  ELSE IF dAtA[iNdEx + 1] < 128
    THEN [err |-> ErrNil, v |-> OrShift(v, dAtA[iNdEx + 1] % 128, shift), iNdEx |-> iNdEx + 1]
    ELSE VarintLoop_EndFirst(dAtA, iNdEx + 1, shift + 7,
                             OrShift(v, dAtA[iNdEx + 1] % 128, shift))

\* The varint loop that every decoder inlines:
\*   for shift := uint(0); ; shift += 7 { overflow check; end check; v |= (b&0x7F) << shift }
\* The result carries the bits accumulated so far also when it fails.
RECURSIVE VarintLoop(_, _, _, _)
VarintLoop(dAtA, iNdEx, shift, v) ==
  IF shift >= 64 THEN [err |-> ErrIntOverflowEvm, v |-> v, iNdEx |-> iNdEx]
  ELSE IF iNdEx >= Len(dAtA) THEN [err |-> ErrUnexpectedEOF, v |-> v, iNdEx |-> iNdEx]
  ELSE LET b == dAtA[iNdEx + 1]
           v2 == OrShift(v, b % 128, shift)
       IN IF b < 128
            THEN [err |-> ErrNil, v |-> v2, iNdEx |-> iNdEx + 1]
            ELSE VarintLoop(dAtA, iNdEx + 1, shift + 7, v2)

ReadVarint(dAtA, iNdEx) == VarintLoop(dAtA, iNdEx, 0, Zero64)

\* faulty variant of the length prefix: the length is taken as unsigned, so
\* only the comparison with the end of the buffer is left
ReadLength_Unsigned(dAtA, iNdEx) ==
  Only({ LET postIndex == Add64(U64(r.iNdEx), r.v)
         IN IF r.err # ErrNil THEN [err |-> r.err, iNdEx |-> r.iNdEx, postIndex |-> r.iNdEx]
            ELSE IF ~IsSmall(postIndex) \/ Small(postIndex) > Len(dAtA)
              THEN [err |-> ErrUnexpectedEOF, iNdEx |-> r.iNdEx, postIndex |-> r.iNdEx]
            ELSE [err |-> ErrNil, iNdEx |-> r.iNdEx, postIndex |-> Small(postIndex)]
         : r \in {ReadVarint(dAtA, iNdEx)} })

\* A length prefix and its checks: negative length, negative postIndex,
\* postIndex > l.  iNdEx is the payload's first index, postIndex its end.
ReadLength(dAtA, iNdEx) ==
  Only({ LET postIndex == Add64(U64(r.iNdEx), r.v)
         IN IF r.err # ErrNil THEN [err |-> r.err, iNdEx |-> r.iNdEx, postIndex |-> r.iNdEx]
            ELSE IF IsNeg64(r.v)
              THEN [err |-> ErrInvalidLengthEvm, iNdEx |-> r.iNdEx, postIndex |-> r.iNdEx]
            ELSE IF IsNeg64(postIndex)
              THEN [err |-> ErrInvalidLengthEvm, iNdEx |-> r.iNdEx, postIndex |-> r.iNdEx]
            ELSE IF ~IsSmall(postIndex) \/ Small(postIndex) > Len(dAtA)
              THEN [err |-> ErrUnexpectedEOF, iNdEx |-> r.iNdEx, postIndex |-> r.iNdEx]
            ELSE [err |-> ErrNil, iNdEx |-> r.iNdEx, postIndex |-> Small(postIndex)]
         : r \in {ReadVarint(dAtA, iNdEx)} })

\* dAtA[from:to]
Slice(dAtA, from, to) == SubSeq(dAtA, from + 1, to)

\* the outcome of one field: the record, the cursor and the error
Ret(m, iNdEx, err) == [m |-> m, iNdEx |-> iNdEx, err |-> err]

\* faulty variant of case 0 of skipEvm: a varint is taken to be one byte
SkipVarint_OneByte(dAtA, iNdEx, shift) ==
  IF iNdEx >= Len(dAtA) THEN [err |-> ErrUnexpectedEOF, iNdEx |-> iNdEx]
  ELSE [err |-> ErrNil, iNdEx |-> iNdEx + 1]

\* the varint loop of case 0 of skipEvm, which keeps no value
RECURSIVE SkipVarint(_, _, _)
SkipVarint(dAtA, iNdEx, shift) ==
  IF shift >= 64 THEN [err |-> ErrIntOverflowEvm, iNdEx |-> iNdEx]
  ELSE IF iNdEx >= Len(dAtA) THEN [err |-> ErrUnexpectedEOF, iNdEx |-> iNdEx]
  ELSE IF dAtA[iNdEx + 1] < 128 THEN [err |-> ErrNil, iNdEx |-> iNdEx + 1]
  ELSE SkipVarint(dAtA, iNdEx + 1, shift + 7)

\* faulty variant of the switch of skipEvm: a group end lowers the depth unchecked
SkipSwitch_Unbalanced(dAtA, wireType, iNdEx, depth) ==
  CASE wireType = 0 ->
         [err |-> SkipVarint(dAtA, iNdEx, 0).err,
          at |-> U64(SkipVarint(dAtA, iNdEx, 0).iNdEx), depth |-> depth]
    [] wireType = 1 -> [err |-> ErrNil, at |-> U64(iNdEx + 8), depth |-> depth]
    [] wireType = 2 ->
         Only({ IF r.err # ErrNil THEN [err |-> r.err, at |-> U64(r.iNdEx), depth |-> depth]
                ELSE IF IsNeg64(r.v)
                  THEN [err |-> ErrInvalidLengthEvm, at |-> U64(r.iNdEx), depth |-> depth]
                ELSE [err |-> ErrNil, at |-> Add64(U64(r.iNdEx), r.v), depth |-> depth]
                : r \in {ReadVarint(dAtA, iNdEx)} })
    [] wireType = 3 -> [err |-> ErrNil, at |-> U64(iNdEx), depth |-> depth + 1]
    [] wireType = 4 -> [err |-> ErrNil, at |-> U64(iNdEx), depth |-> depth - 1]
    [] wireType = 5 -> [err |-> ErrNil, at |-> U64(iNdEx + 4), depth |-> depth]
    [] OTHER -> [err |-> ErrIllegalWireType, at |-> U64(iNdEx), depth |-> depth]

\* faulty variant of the switch of skipEvm: a wire type without a case is
\* stepped over as if it had no payload
SkipSwitch_NoDefault(dAtA, wireType, iNdEx, depth) ==
  CASE wireType = 0 ->
         [err |-> SkipVarint(dAtA, iNdEx, 0).err,
          at |-> U64(SkipVarint(dAtA, iNdEx, 0).iNdEx), depth |-> depth]
    [] wireType = 1 -> [err |-> ErrNil, at |-> U64(iNdEx + 8), depth |-> depth]
    [] wireType = 2 ->
         Only({ IF r.err # ErrNil THEN [err |-> r.err, at |-> U64(r.iNdEx), depth |-> depth]
                ELSE IF IsNeg64(r.v)
                  THEN [err |-> ErrInvalidLengthEvm, at |-> U64(r.iNdEx), depth |-> depth]
                ELSE [err |-> ErrNil, at |-> Add64(U64(r.iNdEx), r.v), depth |-> depth]
                : r \in {ReadVarint(dAtA, iNdEx)} })
    [] wireType = 3 -> [err |-> ErrNil, at |-> U64(iNdEx), depth |-> depth + 1]
    [] wireType = 4 ->
         IF depth = 0
           THEN [err |-> ErrUnexpectedEndOfGroupEvm, at |-> U64(iNdEx), depth |-> depth]
           ELSE [err |-> ErrNil, at |-> U64(iNdEx), depth |-> depth - 1]
    [] wireType = 5 -> [err |-> ErrNil, at |-> U64(iNdEx + 4), depth |-> depth]
    [] OTHER -> [err |-> ErrNil, at |-> U64(iNdEx), depth |-> depth]

\* `switch wireType` of skipEvm behind a tag that ended at iNdEx: the cursor it
\* leaves, as a 64-bit word because it may lie far beyond the buffer, the group
\* depth and the error
SkipSwitch(dAtA, wireType, iNdEx, depth) ==
  CASE wireType = 0 ->
         [err |-> SkipVarint(dAtA, iNdEx, 0).err,
          at |-> U64(SkipVarint(dAtA, iNdEx, 0).iNdEx), depth |-> depth]
    [] wireType = 1 -> [err |-> ErrNil, at |-> U64(iNdEx + 8), depth |-> depth]
    [] wireType = 2 ->
         Only({ IF r.err # ErrNil THEN [err |-> r.err, at |-> U64(r.iNdEx), depth |-> depth]
                ELSE IF IsNeg64(r.v)
                  THEN [err |-> ErrInvalidLengthEvm, at |-> U64(r.iNdEx), depth |-> depth]
                ELSE [err |-> ErrNil, at |-> Add64(U64(r.iNdEx), r.v), depth |-> depth]
                : r \in {ReadVarint(dAtA, iNdEx)} })
    [] wireType = 3 -> [err |-> ErrNil, at |-> U64(iNdEx), depth |-> depth + 1]
    [] wireType = 4 ->
         IF depth = 0
           THEN [err |-> ErrUnexpectedEndOfGroupEvm, at |-> U64(iNdEx), depth |-> depth]
           ELSE [err |-> ErrNil, at |-> U64(iNdEx), depth |-> depth - 1]
    [] wireType = 5 -> [err |-> ErrNil, at |-> U64(iNdEx + 4), depth |-> depth]
    [] OTHER -> [err |-> ErrIllegalWireType, at |-> U64(iNdEx), depth |-> depth]

\* skipEvm from cursor iNdEx at group depth `depth`: the tag, the switch, then
\* the checks at the foot of the loop
RECURSIVE SkipLoop(_, _, _)
SkipLoop(dAtA, iNdEx, depth) ==
  IF ~(iNdEx < Len(dAtA)) THEN [n |-> Zero64, err |-> ErrUnexpectedEOF]
  ELSE Only({
         IF w.err # ErrNil THEN [n |-> Zero64, err |-> w.err]
         ELSE Only({
                IF after.err # ErrNil THEN [n |-> Zero64, err |-> after.err]
                ELSE IF IsNeg64(after.at) THEN [n |-> Zero64, err |-> ErrInvalidLengthEvm]
                ELSE IF after.depth = 0 THEN [n |-> after.at, err |-> ErrNil]
                ELSE IF IsSmall(after.at) /\ Small(after.at) < Len(dAtA)
                  THEN SkipLoop(dAtA, Small(after.at), after.depth)
                ELSE [n |-> Zero64, err |-> ErrUnexpectedEOF]
                : after \in {SkipSwitch(dAtA, w.v[1] % 8, w.iNdEx, depth)} })
         : w \in {ReadVarint(dAtA, iNdEx)} })

skipEvm(dAtA) == SkipLoop(dAtA, 0, 0)

\* faulty variant of default: an unknown field ends the decoding
SkipField_DropRest(m, dAtA, preIndex) ==
  IF skipEvm(Slice(dAtA, preIndex, Len(dAtA))).err # ErrNil
    THEN Ret(m, preIndex, skipEvm(Slice(dAtA, preIndex, Len(dAtA))).err)
    ELSE Ret(m, Len(dAtA), ErrNil)

\* faulty variant of default: the skip length is not compared with the end of
\* the buffer
SkipField_NoEndCheck(m, dAtA, preIndex) ==
  Only({ LET to == Add64(U64(preIndex), r.n)
         IN IF r.err # ErrNil THEN Ret(m, preIndex, r.err)
            ELSE IF IsNeg64(r.n) \/ IsNeg64(to) THEN Ret(m, preIndex, ErrInvalidLengthEvm)
            ELSE IF ~IsSmall(to) THEN Ret(m, preIndex, ErrUnexpectedEOF)
            ELSE Ret(m, Small(to), ErrNil)
         : r \in {skipEvm(Slice(dAtA, preIndex, Len(dAtA)))} })

\* default: of every Unmarshal: hand the field to skipEvm and step over it
SkipField(m, dAtA, preIndex) ==
  Only({ LET to == Add64(U64(preIndex), r.n)
         IN IF r.err # ErrNil THEN Ret(m, preIndex, r.err)
            ELSE IF IsNeg64(r.n) \/ IsNeg64(to) THEN Ret(m, preIndex, ErrInvalidLengthEvm)
            ELSE IF ~IsSmall(to) \/ Small(to) > Len(dAtA) THEN Ret(m, preIndex, ErrUnexpectedEOF)
            ELSE Ret(m, Small(to), ErrNil)
         : r \in {skipEvm(Slice(dAtA, preIndex, Len(dAtA)))} })

\* case of a string field
StringField(m, f, wireType, dAtA, iNdEx) ==
  IF wireType # 2 THEN Ret(m, iNdEx, ErrWrongWireType)
  ELSE Only({ IF r.err # ErrNil THEN Ret(m, r.iNdEx, r.err)
              ELSE Ret([m EXCEPT ![f] = Slice(dAtA, r.iNdEx, r.postIndex)], r.postIndex, ErrNil)
              : r \in {ReadLength(dAtA, iNdEx)} })

\* faulty variant of the bytes case: the bytes are appended to those held
BytesField_Append(m, f, wireType, dAtA, iNdEx) ==
  IF wireType # 2 THEN Ret(m, iNdEx, ErrWrongWireType)
  ELSE Only({ IF r.err # ErrNil THEN Ret(m, r.iNdEx, r.err)
              ELSE Ret([m EXCEPT ![f] = m[f] \o Slice(dAtA, r.iNdEx, r.postIndex)],
                       r.postIndex, ErrNil)
              : r \in {ReadLength(dAtA, iNdEx)} })

\* case of a bytes field: m.f = append(m.f[:0], dAtA[iNdEx:postIndex]...)
BytesField(m, f, wireType, dAtA, iNdEx) ==
  IF wireType # 2 THEN Ret(m, iNdEx, ErrWrongWireType)
  ELSE Only({ IF r.err # ErrNil THEN Ret(m, r.iNdEx, r.err)
              ELSE Ret([m EXCEPT ![f] = SubSeq(m[f], 1, 0) \o Slice(dAtA, r.iNdEx, r.postIndex)],
                       r.postIndex, ErrNil)
              : r \in {ReadLength(dAtA, iNdEx)} })

\* case of a repeated string field: m.f = append(m.f, string(...))
StringsField(m, f, wireType, dAtA, iNdEx) ==
  IF wireType # 2 THEN Ret(m, iNdEx, ErrWrongWireType)
  ELSE Only({ IF r.err # ErrNil THEN Ret(m, r.iNdEx, r.err)
              ELSE Ret([m EXCEPT ![f] = Append(m[f], Slice(dAtA, r.iNdEx, r.postIndex))],
                       r.postIndex, ErrNil)
              : r \in {ReadLength(dAtA, iNdEx)} })

\* faulty variant of the bool case: the wire type is not checked
BoolField_AnyWireType(m, f, wireType, dAtA, iNdEx) ==
  Only({ IF r.err # ErrNil THEN Ret(m, r.iNdEx, r.err)
         ELSE Ret([m EXCEPT ![f] = ~IsZero64(r.v)], r.iNdEx, ErrNil)
         : r \in {ReadVarint(dAtA, iNdEx)} })

\* case of a bool field: var v int; ...; m.f = bool(v != 0)
BoolField(m, f, wireType, dAtA, iNdEx) ==
  IF wireType # 0 THEN Ret(m, iNdEx, ErrWrongWireType)
  ELSE Only({ IF r.err # ErrNil THEN Ret(m, r.iNdEx, r.err)
              ELSE Ret([m EXCEPT ![f] = ~IsZero64(r.v)], r.iNdEx, ErrNil)
              : r \in {ReadVarint(dAtA, iNdEx)} })

\* faulty variant of the uint64 case: the value is accumulated in 32 bits
Uint64Field_Low32(m, f, wireType, dAtA, iNdEx) ==
  IF wireType # 0 THEN Ret(m, iNdEx, ErrWrongWireType)
  ELSE Only({ Ret([m EXCEPT ![f] = << r.v[1], r.v[2], r.v[3], r.v[4], r.v[5] % 16,
                                      0, 0, 0, 0, 0 >>], r.iNdEx, r.err)
              : r \in {ReadVarint(dAtA, iNdEx)} })

\* case of a uint64 field: m.f = 0; ...; m.f |= uint64(b&0x7F) << shift
Uint64Field(m, f, wireType, dAtA, iNdEx) ==
  IF wireType # 0 THEN Ret(m, iNdEx, ErrWrongWireType)
  ELSE Only({ Ret([m EXCEPT ![f] = r.v], r.iNdEx, r.err) : r \in {ReadVarint(dAtA, iNdEx)} })

\* case of an int32 field: m.f = 0; ...; m.f |= int32(b&0x7F) << shift
Int32Field(m, f, wireType, dAtA, iNdEx) ==
  IF wireType # 0 THEN Ret(m, iNdEx, ErrWrongWireType)
  ELSE Only({ Ret([m EXCEPT ![f] = Trunc32(r.v)], r.iNdEx, r.err)
              : r \in {ReadVarint(dAtA, iNdEx)} })

\* faulty variant of the Int case: a decoded zero leaves the field nil
IntField_ZeroIsNil(m, f, wireType, dAtA, iNdEx) ==
  IF wireType # 2 THEN Ret(m, iNdEx, ErrWrongWireType)
  ELSE Only({ IF r.err # ErrNil THEN Ret(m, r.iNdEx, r.err)
              ELSE Only({ IF u.err # ErrNil THEN Ret([m EXCEPT ![f] = <<u.x>>], r.iNdEx, u.err)
                          ELSE IF u.x.v = 0 THEN Ret(m, r.postIndex, ErrNil)
                          ELSE Ret([m EXCEPT ![f] = <<u.x>>], r.postIndex, ErrNil)
                          : u \in {IntUnmarshal(Slice(dAtA, r.iNdEx, r.postIndex))} })
              : r \in {ReadLength(dAtA, iNdEx)} })

\* case of a *cosmossdk_io_math.Int field: var v Int; m.f = &v; m.f.Unmarshal(...)
IntField(m, f, wireType, dAtA, iNdEx) ==
  IF wireType # 2 THEN Ret(m, iNdEx, ErrWrongWireType)
  ELSE Only({ IF r.err # ErrNil THEN Ret(m, r.iNdEx, r.err)
              ELSE Only({ IF u.err # ErrNil THEN Ret([m EXCEPT ![f] = <<u.x>>], r.iNdEx, u.err)
                          ELSE Ret([m EXCEPT ![f] = <<u.x>>], r.postIndex, ErrNil)
                          : u \in {IntUnmarshal(Slice(dAtA, r.iNdEx, r.postIndex))} })
              : r \in {ReadLength(dAtA, iNdEx)} })

\* ------------------------------------------------------------ Unmarshal

\* Unmarshal(T, m, dAtA) is (m *T).Unmarshal(dAtA): the record after the call
\* and the error returned.  UnmarshalFrom runs the main loop from a cursor.
RECURSIVE UnmarshalFrom(_, _, _, _)
Unmarshal(T, m, dAtA) == UnmarshalFrom(T, m, dAtA, 0)

\* faulty variant of the embedded-record case: the record is reset first
MessageField_Reset(m, f, T, wireType, dAtA, iNdEx) ==
  IF wireType # 2 THEN Ret(m, iNdEx, ErrWrongWireType)
  ELSE Only({ IF r.err # ErrNil THEN Ret(m, r.iNdEx, r.err)
              ELSE Only({ IF u.err # ErrNil THEN Ret([m EXCEPT ![f] = u.m], r.iNdEx, u.err)
                          ELSE Ret([m EXCEPT ![f] = u.m], r.postIndex, ErrNil)
                          : u \in {Unmarshal(T, Zero(T), Slice(dAtA, r.iNdEx, r.postIndex))} })
              : r \in {ReadLength(dAtA, iNdEx)} })

\* case of an embedded record held by value: m.f.Unmarshal(dAtA[iNdEx:postIndex])
MessageField(m, f, T, wireType, dAtA, iNdEx) ==
  IF wireType # 2 THEN Ret(m, iNdEx, ErrWrongWireType)
  ELSE Only({ IF r.err # ErrNil THEN Ret(m, r.iNdEx, r.err)
              ELSE Only({ IF u.err # ErrNil THEN Ret([m EXCEPT ![f] = u.m], r.iNdEx, u.err)
                          ELSE Ret([m EXCEPT ![f] = u.m], r.postIndex, ErrNil)
                          : u \in {Unmarshal(T, m[f], Slice(dAtA, r.iNdEx, r.postIndex))} })
              : r \in {ReadLength(dAtA, iNdEx)} })

\* case of an embedded record held by pointer:
\*   if m.f == nil { m.f = &T{} }; m.f.Unmarshal(dAtA[iNdEx:postIndex])
MessagePtrField(m, f, T, wireType, dAtA, iNdEx) ==
  IF wireType # 2 THEN Ret(m, iNdEx, ErrWrongWireType)
  ELSE Only({ IF r.err # ErrNil THEN Ret(m, r.iNdEx, r.err)
              ELSE Only({ IF u.err # ErrNil THEN Ret([m EXCEPT ![f] = <<u.m>>], r.iNdEx, u.err)
                          ELSE Ret([m EXCEPT ![f] = <<u.m>>], r.postIndex, ErrNil)
                          : u \in {Unmarshal(T, IF m[f] = <<>> THEN Zero(T) ELSE m[f][1],
                                             Slice(dAtA, r.iNdEx, r.postIndex))} })
              : r \in {ReadLength(dAtA, iNdEx)} })

\* case of a repeated embedded record:
\*   m.f = append(m.f, &T{}); m.f[len(m.f)-1].Unmarshal(dAtA[iNdEx:postIndex])
MessagesField(m, f, T, wireType, dAtA, iNdEx) ==
  IF wireType # 2 THEN Ret(m, iNdEx, ErrWrongWireType)
  ELSE Only({ IF r.err # ErrNil THEN Ret(m, r.iNdEx, r.err)
              ELSE Only({ IF u.err # ErrNil
                            THEN Ret([m EXCEPT ![f] = Append(m[f], <<u.m>>)], r.iNdEx, u.err)
                            ELSE Ret([m EXCEPT ![f] = Append(m[f], <<u.m>>)], r.postIndex, ErrNil)
                          : u \in {Unmarshal(T, Zero(T), Slice(dAtA, r.iNdEx, r.postIndex))} })
              : r \in {ReadLength(dAtA, iNdEx)} })

\* the loop `for iNdEx < postIndex` over a packed run: one varint per turn,
\* each read against the end of the whole buffer
RECURSIVE PackedLoop(_, _, _, _, _)
PackedLoop(m, f, dAtA, iNdEx, postIndex) ==
  IF ~(iNdEx < postIndex) THEN Ret(m, iNdEx, ErrNil)
  ELSE Only({ IF r.err # ErrNil THEN Ret(m, r.iNdEx, r.err)
              ELSE PackedLoop([m EXCEPT ![f] = Append(m[f], r.v)], f, dAtA, r.iNdEx, postIndex)
              : r \in {ReadVarint(dAtA, iNdEx)} })

\* faulty variant of case 4 of Params.Unmarshal: only the packed form is taken
PackedInt64Field_PackedOnly(m, f, wireType, dAtA, iNdEx) ==
  IF wireType = 2
    THEN Only({ IF r.err # ErrNil THEN Ret(m, r.iNdEx, r.err)
                ELSE PackedLoop(m, f, dAtA, r.iNdEx, r.postIndex)
                : r \in {ReadLength(dAtA, iNdEx)} })
  ELSE Ret(m, iNdEx, ErrWrongWireType)

\* case 4 of Params.Unmarshal: a repeated int64, unpacked (wire type 0) or packed (2)
PackedInt64Field(m, f, wireType, dAtA, iNdEx) ==
  IF wireType = 0
    THEN Only({ IF r.err # ErrNil THEN Ret(m, r.iNdEx, r.err)
                ELSE Ret([m EXCEPT ![f] = Append(m[f], r.v)], r.iNdEx, ErrNil)
                : r \in {ReadVarint(dAtA, iNdEx)} })
  ELSE IF wireType = 2
    THEN Only({ IF r.err # ErrNil THEN Ret(m, r.iNdEx, r.err)
                ELSE PackedLoop(m, f, dAtA, r.iNdEx, r.postIndex)
                : r \in {ReadLength(dAtA, iNdEx)} })
  ELSE Ret(m, iNdEx, ErrWrongWireType)

ParamsUnmarshalField(m, fieldNum, wireType, dAtA, iNdEx, preIndex) ==
  CASE fieldNum = 1 -> StringField(m, "EvmDenom", wireType, dAtA, iNdEx)
    [] fieldNum = 2 -> BoolField(m, "EnableCreate", wireType, dAtA, iNdEx)
    [] fieldNum = 3 -> BoolField(m, "EnableCall", wireType, dAtA, iNdEx)
    [] fieldNum = 4 -> PackedInt64Field(m, "ExtraEIPs", wireType, dAtA, iNdEx)
    [] fieldNum = 5 -> MessageField(m, "ChainConfig", "ChainConfig", wireType, dAtA, iNdEx)
    [] fieldNum = 6 -> BoolField(m, "AllowUnprotectedTxs", wireType, dAtA, iNdEx)
    [] OTHER -> SkipField(m, dAtA, preIndex)

ChainConfigUnmarshalField(m, fieldNum, wireType, dAtA, iNdEx, preIndex) ==
  CASE fieldNum = 1 -> IntField(m, "HomesteadBlock", wireType, dAtA, iNdEx)
    [] fieldNum = 2 -> IntField(m, "DAOForkBlock", wireType, dAtA, iNdEx)
    [] fieldNum = 3 -> BoolField(m, "DAOForkSupport", wireType, dAtA, iNdEx)
    [] fieldNum = 4 -> IntField(m, "EIP150Block", wireType, dAtA, iNdEx)
    [] fieldNum = 5 -> StringField(m, "EIP150Hash", wireType, dAtA, iNdEx)
    [] fieldNum = 6 -> IntField(m, "EIP155Block", wireType, dAtA, iNdEx)
    [] fieldNum = 7 -> IntField(m, "EIP158Block", wireType, dAtA, iNdEx)
    [] fieldNum = 8 -> IntField(m, "ByzantiumBlock", wireType, dAtA, iNdEx)
    [] fieldNum = 9 -> IntField(m, "ConstantinopleBlock", wireType, dAtA, iNdEx)
    [] fieldNum = 10 -> IntField(m, "PetersburgBlock", wireType, dAtA, iNdEx)
    [] fieldNum = 11 -> IntField(m, "IstanbulBlock", wireType, dAtA, iNdEx)
    [] fieldNum = 12 -> IntField(m, "MuirGlacierBlock", wireType, dAtA, iNdEx)
    [] fieldNum = 13 -> IntField(m, "BerlinBlock", wireType, dAtA, iNdEx)
    [] fieldNum = 17 -> IntField(m, "LondonBlock", wireType, dAtA, iNdEx)
    [] fieldNum = 18 -> IntField(m, "ArrowGlacierBlock", wireType, dAtA, iNdEx)
    [] fieldNum = 20 -> IntField(m, "GrayGlacierBlock", wireType, dAtA, iNdEx)
    [] fieldNum = 21 -> IntField(m, "MergeNetsplitBlock", wireType, dAtA, iNdEx)
    [] fieldNum = 22 -> IntField(m, "ShanghaiBlock", wireType, dAtA, iNdEx)
    [] fieldNum = 23 -> IntField(m, "CancunBlock", wireType, dAtA, iNdEx)
    [] OTHER -> SkipField(m, dAtA, preIndex)

StateUnmarshalField(m, fieldNum, wireType, dAtA, iNdEx, preIndex) ==
  CASE fieldNum = 1 -> StringField(m, "Key", wireType, dAtA, iNdEx)
    [] fieldNum = 2 -> StringField(m, "Value", wireType, dAtA, iNdEx)
    [] OTHER -> SkipField(m, dAtA, preIndex)

TransactionLogsUnmarshalField(m, fieldNum, wireType, dAtA, iNdEx, preIndex) ==
  CASE fieldNum = 1 -> StringField(m, "Hash", wireType, dAtA, iNdEx)
    [] fieldNum = 2 -> MessagesField(m, "Logs", "Log", wireType, dAtA, iNdEx)
    [] OTHER -> SkipField(m, dAtA, preIndex)

LogUnmarshalField(m, fieldNum, wireType, dAtA, iNdEx, preIndex) ==
  CASE fieldNum = 1 -> StringField(m, "Address", wireType, dAtA, iNdEx)
    [] fieldNum = 2 -> StringsField(m, "Topics", wireType, dAtA, iNdEx)
    [] fieldNum = 3 -> BytesField(m, "Data", wireType, dAtA, iNdEx)
    [] fieldNum = 4 -> Uint64Field(m, "BlockNumber", wireType, dAtA, iNdEx)
    [] fieldNum = 5 -> StringField(m, "TxHash", wireType, dAtA, iNdEx)
    [] fieldNum = 6 -> Uint64Field(m, "TxIndex", wireType, dAtA, iNdEx)
    [] fieldNum = 7 -> StringField(m, "BlockHash", wireType, dAtA, iNdEx)
    [] fieldNum = 8 -> Uint64Field(m, "Index", wireType, dAtA, iNdEx)
    [] fieldNum = 9 -> BoolField(m, "Removed", wireType, dAtA, iNdEx)
    [] OTHER -> SkipField(m, dAtA, preIndex)

TxResultUnmarshalField(m, fieldNum, wireType, dAtA, iNdEx, preIndex) ==
  CASE fieldNum = 1 -> StringField(m, "ContractAddress", wireType, dAtA, iNdEx)
    [] fieldNum = 2 -> BytesField(m, "Bloom", wireType, dAtA, iNdEx)
    [] fieldNum = 3 -> MessageField(m, "TxLogs", "TransactionLogs", wireType, dAtA, iNdEx)
    [] fieldNum = 4 -> BytesField(m, "Ret", wireType, dAtA, iNdEx)
    [] fieldNum = 5 -> BoolField(m, "Reverted", wireType, dAtA, iNdEx)
    [] fieldNum = 6 -> Uint64Field(m, "GasUsed", wireType, dAtA, iNdEx)
    [] OTHER -> SkipField(m, dAtA, preIndex)

AccessTupleUnmarshalField(m, fieldNum, wireType, dAtA, iNdEx, preIndex) ==
  CASE fieldNum = 1 -> StringField(m, "Address", wireType, dAtA, iNdEx)
    [] fieldNum = 2 -> StringsField(m, "StorageKeys", wireType, dAtA, iNdEx)
    [] OTHER -> SkipField(m, dAtA, preIndex)

TraceConfigUnmarshalField(m, fieldNum, wireType, dAtA, iNdEx, preIndex) ==
  CASE fieldNum = 1 -> StringField(m, "Tracer", wireType, dAtA, iNdEx)
    [] fieldNum = 2 -> StringField(m, "Timeout", wireType, dAtA, iNdEx)
    [] fieldNum = 3 -> Uint64Field(m, "Reexec", wireType, dAtA, iNdEx)
    [] fieldNum = 5 -> BoolField(m, "DisableStack", wireType, dAtA, iNdEx)
    [] fieldNum = 6 -> BoolField(m, "DisableStorage", wireType, dAtA, iNdEx)
    [] fieldNum = 8 -> BoolField(m, "Debug", wireType, dAtA, iNdEx)
    [] fieldNum = 9 -> Int32Field(m, "Limit", wireType, dAtA, iNdEx)
    [] fieldNum = 10 -> MessagePtrField(m, "Overrides", "ChainConfig", wireType, dAtA, iNdEx)
    [] fieldNum = 11 -> BoolField(m, "EnableMemory", wireType, dAtA, iNdEx)
    [] fieldNum = 12 -> BoolField(m, "EnableReturnData", wireType, dAtA, iNdEx)
    [] fieldNum = 13 -> StringField(m, "TracerJsonConfig", wireType, dAtA, iNdEx)
    [] OTHER -> SkipField(m, dAtA, preIndex)

\* fieldNum := int32(wire >> 3): bits 3..34 of the tag as a signed 32-bit
\* integer; -1 stands for every negative value
FieldNum(wire) ==
  IF wire[5] >= 64 THEN -1
  ELSE (wire[1] \div 8) + 16 * wire[2] + 2048 * wire[3] + 262144 * wire[4]
       + 33554432 * wire[5]

\* One turn of the main loop `for iNdEx < l` of (m *T).Unmarshal: the tag, the
\* end-group and illegal-tag checks, then the type's switch on fieldNum.
UnmarshalField(T, m, dAtA, iNdEx) ==
  Only({
    LET preIndex == iNdEx
        fieldNum == FieldNum(w.v)
        wireType == w.v[1] % 8
    IN IF w.err # ErrNil THEN Ret(m, w.iNdEx, w.err)
       ELSE IF wireType = 4 THEN Ret(m, w.iNdEx, ErrEndGroupNonGroup)
       ELSE IF fieldNum <= 0 THEN Ret(m, w.iNdEx, ErrIllegalTag)
       ELSE CASE T = "Params" ->
                   ParamsUnmarshalField(m, fieldNum, wireType, dAtA, w.iNdEx, preIndex)
              [] T = "ChainConfig" ->
                   ChainConfigUnmarshalField(m, fieldNum, wireType, dAtA, w.iNdEx, preIndex)
              [] T = "State" ->
                   StateUnmarshalField(m, fieldNum, wireType, dAtA, w.iNdEx, preIndex)
              [] T = "TransactionLogs" ->
                   TransactionLogsUnmarshalField(m, fieldNum, wireType, dAtA, w.iNdEx, preIndex)
              [] T = "Log" ->
                   LogUnmarshalField(m, fieldNum, wireType, dAtA, w.iNdEx, preIndex)
              [] T = "TxResult" ->
                   TxResultUnmarshalField(m, fieldNum, wireType, dAtA, w.iNdEx, preIndex)
              [] T = "AccessTuple" ->
                   AccessTupleUnmarshalField(m, fieldNum, wireType, dAtA, w.iNdEx, preIndex)
              [] T = "TraceConfig" ->
                   TraceConfigUnmarshalField(m, fieldNum, wireType, dAtA, w.iNdEx, preIndex)
    : w \in {ReadVarint(dAtA, iNdEx)} })

\* after the loop: if iNdEx > l { return io.ErrUnexpectedEOF }; return nil
UnmarshalEnd(m, dAtA, iNdEx) ==
  Ret(m, iNdEx, IF iNdEx > Len(dAtA) THEN ErrUnexpectedEOF ELSE ErrNil)

UnmarshalFrom(T, m, dAtA, iNdEx) ==
  IF iNdEx < Len(dAtA)
    THEN Only({ IF r.err # ErrNil THEN r ELSE UnmarshalFrom(T, r.m, dAtA, r.iNdEx)
                : r \in {UnmarshalField(T, m, dAtA, iNdEx)} })
    ELSE UnmarshalEnd(m, dAtA, iNdEx)

\* ------------------------------------------------------------ the field tables

\* The wire kind the struct tags give each field number: "bytes" is wire type 2
\* and "varint" wire type 0; ExtraEIPs is "varint,4,rep,packed".
FieldTable(T) ==
  CASE T = "Params" ->
         (1 :> "bytes") @@ (2 :> "varint") @@ (3 :> "varint") @@ (4 :> "packed")
         @@ (5 :> "bytes") @@ (6 :> "varint")
    [] T = "ChainConfig" ->
         [n \in (1..13) \cup {17, 18, 20, 21, 22, 23} |-> IF n = 3 THEN "varint" ELSE "bytes"]
    [] T = "State" -> (1 :> "bytes") @@ (2 :> "bytes")
    [] T = "TransactionLogs" -> (1 :> "bytes") @@ (2 :> "bytes")
    [] T = "Log" ->
         [n \in 1..9 |-> IF n \in {4, 6, 8, 9} THEN "varint" ELSE "bytes"]
    [] T = "TxResult" ->
         [n \in 1..6 |-> IF n \in {5, 6} THEN "varint" ELSE "bytes"]
    [] T = "AccessTuple" -> (1 :> "bytes") @@ (2 :> "bytes")
    [] T = "TraceConfig" ->
         [n \in {1, 2, 3, 5, 6, 8, 9, 10, 11, 12, 13} |->
            IF n \in {1, 2, 10, 13} THEN "bytes" ELSE "varint"]

KnownFieldNums(T) == DOMAIN FieldTable(T)

\* ------------------------------------------------------------ input values

\* "a", "0xabc", "0x01"
StrA == <<97>>
Str0xabc == <<48, 120, 97, 98, 99>>
Str0x01 == <<48, 120, 48, 49>>
StringValues == {StrA, Str0xabc, Str0x01}

\* 1, 300, 2^63, 2^64 - 1
Uint64Values == {U64(1), U64(300), <<0, 0, 0, 0, 0, 0, 0, 0, 0, 1>>, Not64(Zero64)}

\* 1, 1559, -1, -2^31
Int32Values == {I32(1), I32(1559), I32(-1), I32(-2147483647 - 1)}

\* present math.Int values 0, 7, -12, 1559
IntValues == {<<IntOf(0)>>, <<IntOf(7)>>, <<IntOf(-12)>>, <<IntOf(1559)>>}

ExtraEIPsValues ==
  {<<U64(1)>>, <<U64(1), U64(2), U64(1559)>>, <<I64(-1), U64(300)>>, <<U64(0)>>}

StringsValues == {<<StrA>>, <<StrA, Str0x01>>, <<Str0x01, <<>>, StrA>>}

ChainConfigValues ==
  {[ZeroChainConfig EXCEPT !.HomesteadBlock = <<IntOf(0)>>],
   [ZeroChainConfig EXCEPT !.DAOForkSupport = TRUE, !.LondonBlock = <<IntOf(-12)>>],
   [ZeroChainConfig EXCEPT !.EIP150Hash = Str0x01, !.CancunBlock = <<IntOf(1559)>>]}

LogA == [ZeroLog EXCEPT !.Address = StrA]
LogB == [ZeroLog EXCEPT !.Topics = <<StrA, Str0x01>>, !.Index = U64(300)]
LogC == [ZeroLog EXCEPT !.Data = <<0, 255>>, !.Removed = TRUE]
\* Logs is []*Log; an entry is <<log>>, a pointer to a Log.  The records below
\* are those of the data model: every entry of a Logs sequence points to a Log.
LogsValues == {<<<<LogA>>>>, <<<<LogA>>, <<LogB>>>>, <<<<LogC>>, <<LogA>>, <<LogB>>>>,
               <<<<ZeroLog>>, <<LogC>>>>}

TransactionLogsValues ==
  {[Hash |-> StrA, Logs |-> <<>>], [Hash |-> <<>>, Logs |-> <<<<LogB>>, <<LogA>>>>]}

\* for each field of T, the non-zero values an input record may hold there
FieldValues(T) ==
  CASE T = "Params" ->
         [EvmDenom |-> StringValues, EnableCreate |-> {TRUE}, EnableCall |-> {TRUE},
          ExtraEIPs |-> ExtraEIPsValues, ChainConfig |-> ChainConfigValues,
          AllowUnprotectedTxs |-> {TRUE}]
    [] T = "ChainConfig" ->
         [f \in DOMAIN ZeroChainConfig |->
            IF f = "DAOForkSupport" THEN {TRUE}
            ELSE IF f = "EIP150Hash" THEN {StrA, Str0x01}
            ELSE IF f \in {"HomesteadBlock", "BerlinBlock", "LondonBlock", "CancunBlock"}
              THEN IntValues
            ELSE {<<IntOf(0)>>, <<IntOf(-12)>>}]
    [] T = "State" -> [Key |-> StringValues, Value |-> StringValues]
    [] T = "TransactionLogs" -> [Hash |-> StringValues, Logs |-> LogsValues]
    [] T = "Log" ->
         [Address |-> StringValues, Topics |-> StringsValues, Data |-> {<<0>>, <<0, 255>>},
          BlockNumber |-> Uint64Values, TxHash |-> {Str0x01}, TxIndex |-> Uint64Values,
          BlockHash |-> {StrA}, Index |-> Uint64Values, Removed |-> {TRUE}]
    [] T = "TxResult" ->
         [ContractAddress |-> StringValues, Bloom |-> {<<0>>, <<0, 255>>},
          TxLogs |-> TransactionLogsValues, Ret |-> {<<255>>}, Reverted |-> {TRUE},
          GasUsed |-> Uint64Values]
    [] T = "AccessTuple" -> [Address |-> StringValues, StorageKeys |-> StringsValues]
    [] T = "TraceConfig" ->
         [Tracer |-> {StrA}, Timeout |-> {Str0x01}, Reexec |-> Uint64Values,
          DisableStack |-> {TRUE}, DisableStorage |-> {TRUE}, Debug |-> {TRUE},
          Limit |-> Int32Values,
          Overrides |-> {<<ZeroChainConfig>>} \cup {<<c>> : c \in ChainConfigValues},
          EnableMemory |-> {TRUE}, EnableReturnData |-> {TRUE},
          TracerJsonConfig |-> {StrA}]

\* the records of type T in which at most n fields differ from the zero value
RECURSIVE Records(_, _)
Records(T, n) ==
  IF n = 0 THEN {Zero(T)}
  ELSE LET prev == Records(T, n - 1)
       IN prev \cup UNION { UNION { {[r EXCEPT ![f] = v] : v \in FieldValues(T)[f]}
                                    : f \in DOMAIN r }
                            : r \in prev }

\* ------------------------------------------------------------ the state machine

VARIABLES
  T,      \* the record type of the call
  x,      \* the record handed to Marshal
  size,   \* x.Size()
  dAtA,   \* the bytes handed to Unmarshal
  m,      \* the receiver of Unmarshal
  iNdEx,  \* the cursor of Unmarshal's main loop
  err,    \* the error the finished call returned
  pc,     \* "start", "encoded", "decoding", "done"
  aux     \* how dAtA was derived from the marshalled bytes

vars == <<T, x, size, dAtA, m, iNdEx, err, pc, aux>>

NoAux == [kind |-> "marshalled", ref |-> <<>>, mid |-> FALSE, f |-> 0, wt |-> 0, exp |-> <<>>]

InitWith(types, n) ==
  /\ T \in types
  /\ x \in Records(T, n)
  /\ size = 0
  /\ dAtA = <<>>
  /\ m = Zero(T)
  /\ iNdEx = 0
  /\ err = ErrNil
  /\ pc = "start"
  /\ aux = NoAux

Init == InitWith(Types, MaxSet)

\* dAtA, err := x.Marshal()
MarshalRecord ==
  /\ pc = "start"
  /\ \E r \in {Marshal(T, x)} :
       /\ dAtA' = r.dAtA
       /\ size' = r.size
       /\ err' = r.err
       /\ pc' = IF r.err = ErrNil THEN "encoded" ELSE "done"
  /\ UNCHANGED <<T, x, m, iNdEx, aux>>

\* a fresh record's Unmarshal is entered with the marshalled bytes
UnmarshalCall ==
  /\ pc = "encoded"
  /\ m' = Zero(T)
  /\ iNdEx' = 0
  /\ pc' = "decoding"
  /\ UNCHANGED <<T, x, size, dAtA, err, aux>>

\* faulty variant of the main loop: the cursor is not moved behind the field
UnmarshalStep_KeepCursor ==
  /\ pc = "decoding"
  /\ iNdEx < Len(dAtA)
  /\ \E r \in {UnmarshalField(T, m, dAtA, iNdEx)} :
       /\ m' = r.m
       /\ err' = r.err
       /\ pc' = IF r.err = ErrNil THEN "decoding" ELSE "done"
  /\ UNCHANGED <<T, x, size, dAtA, iNdEx, aux>>

\* faulty variant of the main loop: an error gives the record back as it was
\* before the call
UnmarshalStep_Rollback ==
  /\ pc = "decoding"
  /\ iNdEx < Len(dAtA)
  /\ \E r \in {UnmarshalField(T, m, dAtA, iNdEx)} :
       /\ m' = IF r.err = ErrNil THEN r.m ELSE Zero(T)
       /\ iNdEx' = r.iNdEx
       /\ err' = r.err
       /\ pc' = IF r.err = ErrNil THEN "decoding" ELSE "done"
  /\ UNCHANGED <<T, x, size, dAtA, aux>>

\* one turn of the main loop
UnmarshalStep ==
  /\ pc = "decoding"
  /\ iNdEx < Len(dAtA)
  /\ \E r \in {UnmarshalField(T, m, dAtA, iNdEx)} :
       /\ m' = r.m
       /\ iNdEx' = r.iNdEx
       /\ err' = r.err
       /\ pc' = IF r.err = ErrNil THEN "decoding" ELSE "done"
  /\ UNCHANGED <<T, x, size, dAtA, aux>>

\* the loop is left and Unmarshal returns
UnmarshalReturn ==
  /\ pc = "decoding"
  /\ ~(iNdEx < Len(dAtA))
  /\ err' = UnmarshalEnd(m, dAtA, iNdEx).err
  /\ pc' = "done"
  /\ UNCHANGED <<T, x, size, dAtA, m, iNdEx, aux>>

Next == MarshalRecord \/ UnmarshalCall \/ UnmarshalStep \/ UnmarshalReturn

Spec == Init /\ [][Next]_vars

\* ------------------------------------------------------------ reading a stream

\* The top-level fields of a well-formed stream, in order: field number, wire
\* type and the 0-based extent [from, to) of tag and payload.  A stream that is
\* not well formed ends the walk with an entry of number -1.
RECURSIVE WireFieldsFrom(_, _)
WireFieldsFrom(bs, i) ==
  IF i >= Len(bs) THEN <<>>
  ELSE Only({
    Only({ IF t.err # ErrNil \/ to < 0 \/ to > Len(bs)
             THEN <<[num |-> -1, wt |-> 0, from |-> i, to |-> Len(bs)]>>
             ELSE <<[num |-> FieldNum(t.v), wt |-> t.v[1] % 8, from |-> i, to |-> to]>>
                  \o WireFieldsFrom(bs, to)
           : to \in { CASE t.v[1] % 8 = 0 ->
                             IF ReadVarint(bs, t.iNdEx).err = ErrNil
                               THEN ReadVarint(bs, t.iNdEx).iNdEx ELSE -1
                        [] t.v[1] % 8 = 1 -> t.iNdEx + 8
                        [] t.v[1] % 8 = 2 ->
                             IF ReadLength(bs, t.iNdEx).err = ErrNil
                               THEN ReadLength(bs, t.iNdEx).postIndex ELSE -1
                        [] t.v[1] % 8 = 5 -> t.iNdEx + 4
                        [] OTHER -> -1 } })
    : t \in {ReadVarint(bs, i)} })

WireFields(bs) == WireFieldsFrom(bs, 0)

\* the field numbers that occur at the top level of a stream
FieldNumsIn(bs) == {WireFields(bs)[k].num : k \in 1..Len(WireFields(bs))}

\* ------------------------------------------------------------ derived streams

\* the 0-based index after each top-level field of a stream, and 0
FieldEnds(bs) == {0} \cup {WireFields(bs)[k].to : k \in 1..Len(WireFields(bs))}

\* a tag: the varint of (field number << 3) | wire type
Tag(f, wt) == VarintBytes(U64(8 * f + wt))

\* -- a strict prefix of the marshalled bytes

\* the input records of the truncation runs differ from zero in this many fields
MaxSetTruncated == 1

InitTruncated == InitWith(Types, MaxSetTruncated)

\* Unmarshal is entered with the first k bytes of the marshalled bytes
Truncate ==
  /\ pc = "encoded"
  /\ \E k \in 0..(Len(dAtA) - 1) :
       /\ dAtA' = SubSeq(dAtA, 1, k)
       /\ aux' = [NoAux EXCEPT !.kind = "truncated", !.ref = dAtA,
                               !.mid = k \notin FieldEnds(dAtA)]
  /\ m' = Zero(T)
  /\ iNdEx' = 0
  /\ pc' = "decoding"
  /\ UNCHANGED <<T, x, size, err>>

NextTruncated == MarshalRecord \/ Truncate \/ UnmarshalStep \/ UnmarshalReturn

SpecTruncated == InitTruncated /\ [][NextTruncated]_vars

\* -- one field of an unknown number added to the marshalled bytes

\* a field number with a one-byte tag and one with a two-byte tag, in no table
UnknownNums == {15, 100}

\* the encodings of an unknown field f, with the wire kind of each
UnknownFields(f) ==
  { [wt |-> 0, bytes |-> Tag(f, 0) \o <<5>>],
    [wt |-> 0, bytes |-> Tag(f, 0) \o <<255, 1>>],
    [wt |-> 0, bytes |-> Tag(f, 0) \o <<255, 255, 255, 255, 255, 255, 255, 255, 255, 1>>],
    [wt |-> 1, bytes |-> Tag(f, 1) \o <<1, 2, 3, 4, 5, 6, 7, 255>>],
    [wt |-> 2, bytes |-> Tag(f, 2) \o <<0>>],
    [wt |-> 2, bytes |-> Tag(f, 2) \o <<3, 10, 255, 0>>],
    [wt |-> 3, bytes |-> Tag(f, 3) \o Tag(f, 4)],
    [wt |-> 3, bytes |-> Tag(f, 3) \o Tag(9, 0) \o <<7>> \o Tag(f, 4)],
    [wt |-> 3, bytes |-> Tag(f, 3) \o Tag(1, 2) \o <<2, 0, 0>> \o Tag(2, 1)
                         \o <<1, 2, 3, 4, 5, 6, 7, 8>> \o Tag(f, 4)],
    [wt |-> 3, bytes |-> Tag(f, 3) \o Tag(f, 3) \o Tag(2, 5) \o <<1, 2, 3, 255>>
                         \o Tag(f, 4) \o Tag(f, 4)],
    [wt |-> 5, bytes |-> Tag(f, 5) \o <<1, 2, 3, 255>>] }

\* the marshalled record has at most one field set
InitUnknown == InitWith(Types, 1)

\* Unmarshal is entered with an unknown field put between two fields, before
\* the first or after the last field of the marshalled bytes
InsertUnknown ==
  /\ pc = "encoded"
  /\ \E f \in UnknownNums \ KnownFieldNums(T) :
       \E u \in UnknownFields(f) :
         \E at \in FieldEnds(dAtA) :
           /\ dAtA' = SubSeq(dAtA, 1, at) \o u.bytes \o SubSeq(dAtA, at + 1, Len(dAtA))
           /\ aux' = [NoAux EXCEPT !.kind = "unknown", !.ref = dAtA, !.f = f, !.wt = u.wt]
  /\ m' = Zero(T)
  /\ iNdEx' = 0
  /\ pc' = "decoding"
  /\ UNCHANGED <<T, x, size, err>>

NextUnknown == MarshalRecord \/ InsertUnknown \/ UnmarshalStep \/ UnmarshalReturn

SpecUnknown == InitUnknown /\ [][NextUnknown]_vars

\* -- a recognized field number under each wire kind

\* the wire types the field table assigns to field f of a type
AssignedWireTypes(typ, f) ==
  CASE FieldTable(typ)[f] = "bytes" -> {2}
    [] FieldTable(typ)[f] = "varint" -> {0}
    [] FieldTable(typ)[f] = "packed" -> {0, 2}

\* the marshalled record is zero or has one field set
InitWireType ==
  /\ InitWith(Types, 1)
  /\ \/ x = Zero(T)
     \/ x = CHOOSE r \in Records(T, 1) : r # Zero(T)

\* Unmarshal is entered with the marshalled bytes followed by the tag of a
\* recognized field under some wire kind, alone or followed by a zero byte: the
\* varint 0 of wire kind 0 and the empty payload of wire kind 2
AppendTag ==
  /\ pc = "encoded"
  /\ \E f \in KnownFieldNums(T) :
       \E wt \in 0..7 :
         \E rest \in {<<>>, <<0>>} :
           /\ dAtA' = dAtA \o Tag(f, wt) \o rest
           /\ aux' = [NoAux EXCEPT !.kind = "tagged", !.ref = dAtA, !.f = f, !.wt = wt,
                                   !.mid = wt \in AssignedWireTypes(T, f)]
  /\ m' = Zero(T)
  /\ iNdEx' = 0
  /\ pc' = "decoding"
  /\ UNCHANGED <<T, x, size, err>>

NextWireType == MarshalRecord \/ AppendTag \/ UnmarshalStep \/ UnmarshalReturn

SpecWireType == InitWireType /\ [][NextWireType]_vars

\* -- hand-built streams of Params field 4

\* a stream holds at most this many runs of ExtraEIPs
MaxSegments == 2

EIPLists == {<<>>, <<U64(1)>>, <<U64(1), U64(2), U64(1559)>>, <<I64(-1), U64(300)>>}

\* one tag 0x22, the run's length, the varints of the list
PackedSegment(L) == <<34>> \o VarintBytes(U64(Len(PackedBytes(L)))) \o PackedBytes(L)

\* one tag 0x20 and one varint per element
RECURSIVE UnpackedSegment(_)
UnpackedSegment(L) ==
  IF Len(L) = 0 THEN <<>> ELSE <<32>> \o VarintBytes(L[1]) \o UnpackedSegment(Tail(L))

Segments == [packed : BOOLEAN, list : EIPLists]

RECURSIVE SegmentBytes(_)
SegmentBytes(segs) ==
  IF Len(segs) = 0 THEN <<>>
  ELSE (IF segs[1].packed THEN PackedSegment(segs[1].list) ELSE UnpackedSegment(segs[1].list))
       \o SegmentBytes(Tail(segs))

RECURSIVE SegmentElements(_)
SegmentElements(segs) ==
  IF Len(segs) = 0 THEN <<>> ELSE segs[1].list \o SegmentElements(Tail(segs))

InitExtraEIPs ==
  /\ InitWith({"Params"}, 0)

\* Unmarshal is entered with a stream of packed and unpacked runs of field 4
BuildExtraEIPs ==
  /\ pc = "start"
  /\ \E n \in 1..MaxSegments :
       \E segs \in [1..n -> Segments] :
         /\ dAtA' = SegmentBytes(segs)
         /\ aux' = [NoAux EXCEPT !.kind = "eips", !.exp = SegmentElements(segs),
                                 !.mid = \E k \in 1..n : segs[k].packed]
  /\ m' = Zero(T)
  /\ iNdEx' = 0
  /\ pc' = "decoding"
  /\ UNCHANGED <<T, x, size, err>>

NextExtraEIPs == BuildExtraEIPs \/ UnmarshalStep \/ UnmarshalReturn

SpecExtraEIPs == InitExtraEIPs /\ [][NextExtraEIPs]_vars

\* ------------------------------------------------------------ hand-built streams

\* the optional extended-precision fields of ChainConfig and their numbers
IntFieldNums ==
  [HomesteadBlock |-> 1, DAOForkBlock |-> 2, EIP150Block |-> 4, EIP155Block |-> 6,
   EIP158Block |-> 7, ByzantiumBlock |-> 8, ConstantinopleBlock |-> 9,
   PetersburgBlock |-> 10, IstanbulBlock |-> 11, MuirGlacierBlock |-> 12,
   BerlinBlock |-> 13, LondonBlock |-> 17, ArrowGlacierBlock |-> 18,
   GrayGlacierBlock |-> 20, MergeNetsplitBlock |-> 21, ShanghaiBlock |-> 22,
   CancunBlock |-> 23]

\* the singular fields of a type that hold no record: name, number, Go type
SingularFields(typ) ==
  CASE typ = "Params" ->
         {<<"EvmDenom", 1, "string">>, <<"EnableCreate", 2, "bool">>,
          <<"EnableCall", 3, "bool">>, <<"AllowUnprotectedTxs", 6, "bool">>}
    [] typ = "ChainConfig" ->
         {<<f, IntFieldNums[f], "Int">> : f \in DOMAIN IntFieldNums}
         \cup {<<"DAOForkSupport", 3, "bool">>, <<"EIP150Hash", 5, "string">>}
    [] typ = "State" -> {<<"Key", 1, "string">>, <<"Value", 2, "string">>}
    [] typ = "TransactionLogs" -> {<<"Hash", 1, "string">>}
    [] typ = "Log" ->
         {<<"Address", 1, "string">>, <<"Data", 3, "bytes">>, <<"BlockNumber", 4, "uint64">>,
          <<"TxHash", 5, "string">>, <<"TxIndex", 6, "uint64">>, <<"BlockHash", 7, "string">>,
          <<"Index", 8, "uint64">>, <<"Removed", 9, "bool">>}
    [] typ = "TxResult" ->
         {<<"ContractAddress", 1, "string">>, <<"Bloom", 2, "bytes">>, <<"Ret", 4, "bytes">>,
          <<"Reverted", 5, "bool">>, <<"GasUsed", 6, "uint64">>}
    [] typ = "AccessTuple" -> {<<"Address", 1, "string">>}
    [] typ = "TraceConfig" ->
         {<<"Tracer", 1, "string">>, <<"Timeout", 2, "string">>, <<"Reexec", 3, "uint64">>,
          <<"DisableStack", 5, "bool">>, <<"DisableStorage", 6, "bool">>,
          <<"Debug", 8, "bool">>, <<"Limit", 9, "int32">>, <<"EnableMemory", 11, "bool">>,
          <<"EnableReturnData", 12, "bool">>, <<"TracerJsonConfig", 13, "string">>}

\* the values one occurrence of a field of a Go type may carry on the wire,
\* the zero value included
OccurrenceValues(kind) ==
  CASE kind = "string" -> {<<>>, StrA, Str0xabc}
    [] kind = "bytes" -> {<<>>, <<0, 255>>, <<7>>}
    [] kind = "bool" -> {FALSE, TRUE}
    [] kind = "uint64" -> {Zero64, U64(1), U64(300), Not64(Zero64)}
    [] kind = "int32" -> {Zero32, I32(127), I32(-1), I32(-2147483647 - 1)}
    [] kind = "Int" -> {<<IntOf(0)>>, <<IntOf(7)>>, <<IntOf(-12)>>}

\* one occurrence of field num on the wire: tag, then the varint of the value
\* or the length and the bytes
Occurrence(num, kind, v) ==
  CASE kind \in {"string", "bytes"} -> Tag(num, 2) \o VarintBytes(U64(Len(v))) \o v
    [] kind = "bool" -> Tag(num, 0) \o <<IF v THEN 1 ELSE 0>>
    [] kind = "uint64" -> Tag(num, 0) \o VarintBytes(v)
    [] kind = "int32" -> Tag(num, 0) \o VarintBytes(SignExtend32(v))
    [] kind = "Int" ->
         Tag(num, 2) \o VarintBytes(U64(Len(IntMarshal(v[1])))) \o IntMarshal(v[1])

InitStreams == InitWith(Types, 0)

\* Unmarshal is entered with two occurrences of one singular field, with
\* nothing or an unknown field between them
BuildDuplicate ==
  /\ pc = "start"
  /\ \E fld \in SingularFields(T) :
       \E v1, v2 \in OccurrenceValues(fld[3]) :
         \E between \in {<<>>, Tag(15, 0) \o <<5>>} :
           /\ dAtA' = Occurrence(fld[2], fld[3], v1) \o between
                      \o Occurrence(fld[2], fld[3], v2)
           /\ aux' = [NoAux EXCEPT !.kind = "duplicate", !.f = fld[2], !.ref = <<v1>>,
                                   !.exp = [Zero(T) EXCEPT ![fld[1]] = v2]]
  /\ m' = Zero(T)
  /\ iNdEx' = 0
  /\ pc' = "decoding"
  /\ UNCHANGED <<T, x, size, err>>

\* the singular fields that hold a record: type, name, number, record type,
\* held by pointer
EmbeddedFields ==
  {<<"Params", "ChainConfig", 5, "ChainConfig", FALSE>>,
   <<"TxResult", "TxLogs", 3, "TransactionLogs", FALSE>>,
   <<"TraceConfig", "Overrides", 10, "ChainConfig", TRUE>>}

EmbeddedValues(typ) ==
  IF typ = "ChainConfig" THEN ChainConfigValues \cup {ZeroChainConfig}
  ELSE TransactionLogsValues \cup {ZeroTransactionLogs}

\* one occurrence of an embedded record: tag, length, the record's bytes
EmbeddedOccurrence(num, typ, e) ==
  Only({ Tag(num, 2) \o VarintBytes(U64(Len(p))) \o p : p \in {Marshal(typ, e).dAtA} })

\* Unmarshal is entered with two occurrences of one embedded record field
BuildEmbedded ==
  /\ pc = "start"
  /\ \E fld \in EmbeddedFields :
       /\ fld[1] = T
       /\ \E e1, e2 \in EmbeddedValues(fld[4]) :
            /\ dAtA' = EmbeddedOccurrence(fld[3], fld[4], e1)
                       \o EmbeddedOccurrence(fld[3], fld[4], e2)
            /\ aux' = [NoAux EXCEPT !.kind = "embedded", !.f = fld[3], !.ref = <<e1, e2>>,
                                    !.exp = fld]
  /\ m' = Zero(T)
  /\ iNdEx' = 0
  /\ pc' = "decoding"
  /\ UNCHANGED <<T, x, size, err>>

\* ten bytes that all carry the continuation bit
TenContinued ==
  {<<128, 128, 128, 128, 128, 128, 128, 128, 128, 128>>,
   <<255, 255, 255, 255, 255, 255, 255, 255, 255, 255>>,
   <<129, 128, 255, 128, 128, 200, 128, 128, 128, 129>>}

\* The bytes that lead the decoder to a varint position of each kind: nothing
\* (the tag itself), the tag of a recognized field under an assigned wire type
\* (a scalar value or a length prefix), the tag and run length of packed
\* ExtraEIPs (a packed element; `more` bytes of the run follow the ten), and,
\* for the skipper, the tag of an unknown field under wire types 0 and 2 and an
\* unknown group start, after which the skipper reads a tag.
VarintPositions(typ, more) ==
  {[at |-> "tag", bytes |-> <<>>]}
  \cup {[at |-> IF wt = 0 THEN "scalar" ELSE "length", bytes |-> Tag(f, wt)]
          : f \in KnownFieldNums(typ), wt \in {0, 2}}
  \cup (IF typ = "Params"
          THEN {[at |-> "packed", bytes |-> Tag(4, 2) \o <<10 + more>>]} ELSE {})
  \cup {[at |-> "skipper", bytes |-> Tag(15, wt)] : wt \in {0, 2, 3}}

\* Unmarshal is entered with ten continued bytes at a varint position, the
\* end of the buffer or some more bytes behind them
BuildOverflow ==
  /\ pc = "start"
  /\ \E before \in {<<>>, Tag(15, 0) \o <<5>>} :
       \E ten \in TenContinued :
         \E rest \in {<<>>, <<0>>, <<1, 2>>, <<255>>} :
           \E p \in VarintPositions(T, Len(rest)) :
             /\ p.at \in {"scalar", "length"} =>
                  (p.bytes[1] % 8) \in AssignedWireTypes(T, p.bytes[1] \div 8)
             /\ dAtA' = before \o p.bytes \o ten \o rest
             /\ aux' = [NoAux EXCEPT !.kind = "overflow", !.ref = p.at, !.mid = rest = <<>>]
  /\ m' = Zero(T)
  /\ iNdEx' = 0
  /\ pc' = "decoding"
  /\ UNCHANGED <<T, x, size, err>>

\* the first nine bytes of a ten-byte varint
NineContinued ==
  {<<128, 128, 128, 128, 128, 128, 128, 128, 128>>,
   <<255, 255, 255, 255, 255, 255, 255, 255, 255>>,
   <<133, 128, 128, 128, 128, 128, 128, 128, 128>>}

\* Unmarshal is entered with a ten-byte varint as the value of a recognized
\* wire type 0 field, as a packed element, or as the value of an unknown
\* field; the tenth byte ends the varint and holds bits 63 and above
BuildWide ==
  /\ pc = "start"
  /\ \E nine \in NineContinued :
       \E tenth \in {0, 1, 2, 3, 126, 127} :
         \E rest \in {<<>>, Tag(15, 0) \o <<5>>} :
           \E p \in VarintPositions(T, 0) :
             /\ p.at \in {"scalar", "packed", "skipper"}
             /\ (p.bytes[1] % 8) = (IF p.at = "packed" THEN 2 ELSE 0)
             /\ p.at = "scalar" => 0 \in AssignedWireTypes(T, p.bytes[1] \div 8)
             /\ dAtA' = p.bytes \o nine \o <<tenth>> \o rest
             /\ aux' = [NoAux EXCEPT !.kind = "wide", !.ref = p.at, !.f = tenth]
  /\ m' = Zero(T)
  /\ iNdEx' = 0
  /\ pc' = "decoding"
  /\ UNCHANGED <<T, x, size, err>>

\* bytes that may stand behind the length prefix of a packed run
RunBytes ==
  {<<1, 2>>, <<172, 2, 16, 1>>, <<128, 1>>, <<1, 128, 16, 1>>, <<255, 127, 50, 0>>,
   <<128, 128, 128, 128, 128, 128, 128, 128, 128, 1, 48, 1>>}

\* Params.Unmarshal is entered with field 4 in packed form as the first field:
\* the tag, a declared length n, and bytes of which the first n are the run
BuildRun ==
  /\ pc = "start"
  /\ T = "Params"
  /\ \E bytes \in RunBytes :
       \E n \in 1..Len(bytes) :
         /\ dAtA' = Tag(4, 2) \o <<n>> \o bytes
         /\ aux' = [NoAux EXCEPT !.kind = "run", !.f = 2 + n, !.ref = SubSeq(bytes, 1, n)]
  /\ m' = Zero(T)
  /\ iNdEx' = 0
  /\ pc' = "decoding"
  /\ UNCHANGED <<T, x, size, err>>

\* streams whose first tag at group depth zero is a group end: the tag of a
\* recognized or an unknown field number, alone or with bytes behind it
EndGroupFirst(typ) ==
  { Tag(f, 4) \o rest : f \in KnownFieldNums(typ) \cup UnknownNums,
                        rest \in {<<>>, <<0>>, Tag(15, 4), Tag(15, 0) \o <<5>>} }

\* Unmarshal is entered with a group end at the top level: at the head of the
\* input, behind a well-formed unknown field, or behind a balanced unknown group
BuildEndGroup ==
  /\ pc = "start"
  /\ \E before \in {<<>>, Tag(15, 0) \o <<5>>, Tag(15, 3) \o Tag(15, 4),
                    Tag(15, 3) \o Tag(100, 3) \o Tag(100, 4) \o Tag(15, 4)} :
       \E bytes \in EndGroupFirst(T) :
         dAtA' = before \o bytes
  /\ aux' = [NoAux EXCEPT !.kind = "endgroup"]
  /\ m' = Zero(T)
  /\ iNdEx' = 0
  /\ pc' = "decoding"
  /\ UNCHANGED <<T, x, size, err>>

\* n, err := skipEvm(dAtA) on bytes that begin with a group end
SkipEndGroup ==
  /\ pc = "start"
  /\ \E bytes \in EndGroupFirst(T) :
       \E r \in {skipEvm(bytes)} :
         /\ dAtA' = bytes
         /\ err' = r.err
         /\ iNdEx' = Small(r.n)
  /\ aux' = [NoAux EXCEPT !.kind = "endgroup"]
  /\ pc' = "skipped"
  /\ UNCHANGED <<T, x, size, m>>

\* an unknown field whose payload runs past the end of the buffer: fixed32 and
\* fixed64 with too few bytes, a declared length beyond the bytes that follow,
\* and a group that is not closed
CutFields(f) ==
  { Tag(f, 5), Tag(f, 5) \o <<1, 2, 3>>,
    Tag(f, 1), Tag(f, 1) \o <<1, 2, 3, 4, 5, 6, 7>>,
    Tag(f, 2) \o <<1>>, Tag(f, 2) \o <<3, 10, 255>>, Tag(f, 2) \o <<200, 1, 0>>,
    Tag(f, 3), Tag(f, 3) \o Tag(9, 0) \o <<7>>, Tag(f, 3) \o Tag(f, 3) \o Tag(f, 4),
    Tag(f, 3) \o Tag(2, 5) \o <<1, 2>> }

\* n, err := skipEvm(dAtA) on such a field; iNdEx takes n
SkipCut ==
  /\ pc = "start"
  /\ \E f \in UnknownNums :
       \E bytes \in CutFields(f) :
         \E r \in {skipEvm(bytes)} :
           /\ dAtA' = bytes
           /\ err' = r.err
           /\ iNdEx' = Small(r.n)
  /\ aux' = [NoAux EXCEPT !.kind = "cut"]
  /\ pc' = "skipped"
  /\ UNCHANGED <<T, x, size, m>>

\* length prefixes: negative as a signed 64-bit integer (-2^63, -1 and -1 with
\* bits above bit 63 set), so large that the cursor plus the length is
\* negative (2^63 - 1), and not negative but beyond the buffer (5, 200, 2^62)
LengthPrefixes ==
  { [is |-> "negative", bytes |-> <<128, 128, 128, 128, 128, 128, 128, 128, 128, 1>>],
    [is |-> "negative", bytes |-> <<255, 255, 255, 255, 255, 255, 255, 255, 255, 1>>],
    [is |-> "negative", bytes |-> <<255, 255, 255, 255, 255, 255, 255, 255, 255, 127>>],
    [is |-> "overflow", bytes |-> <<255, 255, 255, 255, 255, 255, 255, 255, 127>>],
    [is |-> "beyond", bytes |-> <<5>>],
    [is |-> "beyond", bytes |-> <<200, 1>>],
    [is |-> "beyond", bytes |-> <<128, 128, 128, 128, 128, 128, 128, 128, 64>>] }

\* Unmarshal is entered with such a length prefix behind the tag of a field
\* that takes wire type 2 (string, bytes, Int, packed run, embedded record),
\* of an unknown field, or of an unknown field inside an unknown group
BuildLength ==
  /\ pc = "start"
  /\ \E before \in {<<>>, Tag(15, 0) \o <<5>>, Tag(100, 3)} :
       \E f \in KnownFieldNums(T) \cup UnknownNums :
         \E p \in LengthPrefixes :
           \E rest \in {<<>>, <<1, 2>>} :
             /\ f \in KnownFieldNums(T) => 2 \in AssignedWireTypes(T, f)
             /\ dAtA' = before \o Tag(f, 2) \o p.bytes \o rest
             /\ aux' = [NoAux EXCEPT !.kind = "length", !.ref = p.is, !.f = f]
  /\ m' = Zero(T)
  /\ iNdEx' = 0
  /\ pc' = "decoding"
  /\ UNCHANGED <<T, x, size, err>>

\* Unmarshal is entered with a top-level tag of wire kind 6 or 7, of a
\* recognized or an unknown field number, at the head of the input or behind a
\* well-formed unknown field, alone or with bytes behind it
BuildIllegalWire ==
  /\ pc = "start"
  /\ \E before \in {<<>>, Tag(15, 0) \o <<5>>, Tag(15, 3) \o Tag(15, 4)} :
       \E f \in KnownFieldNums(T) \cup UnknownNums :
         \E wt \in {6, 7} :
           \E rest \in {<<>>, <<0>>, <<1, 2>>} :
             /\ dAtA' = before \o Tag(f, wt) \o rest
             /\ aux' = [NoAux EXCEPT !.kind = "illegalwire", !.f = f, !.wt = wt,
                                     !.mid = f \in KnownFieldNums(T)]
  /\ m' = Zero(T)
  /\ iNdEx' = 0
  /\ pc' = "decoding"
  /\ UNCHANGED <<T, x, size, err>>

\* the tag (f << 3) | wt for a field number f = n + 2^31, n + 2^32 or n + 2^60
\* with n below 2^25: bit 34, 35 or 63 of the tag is set
WideTag(n, wt, bit) ==
  VarintBytes([U64(8 * n + wt) EXCEPT ![(bit \div 7) + 1] = IF bit = 34 THEN 64 ELSE 1])

\* Unmarshal is entered with one field whose number is outside the record's
\* field table and does not fit in 31 bits, under wire type 0 with the value 1
\* or under wire type 2 with a one-byte payload
BuildWideTag ==
  /\ pc = "start"
  /\ \E n \in KnownFieldNums(T) \cup UnknownNums :
       \E bit \in {34, 35, 63} :
         \E p \in {[wt |-> 0, bytes |-> <<1>>], [wt |-> 2, bytes |-> <<1, 49>>]} :
           /\ dAtA' = WideTag(n, p.wt, bit) \o p.bytes
           /\ aux' = [NoAux EXCEPT !.kind = "widetag", !.f = n, !.wt = p.wt, !.ref = bit]
  /\ m' = Zero(T)
  /\ iNdEx' = 0
  /\ pc' = "decoding"
  /\ UNCHANGED <<T, x, size, err>>

NextStreams ==
  \/ BuildDuplicate \/ BuildEmbedded \/ BuildOverflow \/ BuildWide \/ BuildRun
  \/ BuildEndGroup \/ SkipEndGroup \/ SkipCut \/ BuildLength \/ BuildIllegalWire
  \/ BuildWideTag
  \/ UnmarshalStep \/ UnmarshalReturn

SpecStreams == InitStreams /\ [][NextStreams]_vars

\* -- a field that fails behind the marshalled bytes

\* the input records differ from zero in at most one field
InitPartial == InitWith(Types, 1)

\* Fields on which Unmarshal fails, with the name of the record field whose
\* case fails ("" when no case is entered): an unknown fixed32 field cut short,
\* an unknown field of wire kind 7, field number 0, a group end, a tag cut
\* short; a singular field under wire type 1 and under its own wire type with
\* the input ending behind the tag; a Logs element whose Address is cut short,
\* alone and behind the element's BlockNumber.
FailingFields(typ) ==
  { [name |-> "", bytes |-> bs] :
      bs \in {Tag(15, 5) \o <<1>>, Tag(15, 7), Tag(0, 2), Tag(15, 4), <<128>>} }
  \cup { [name |-> sf[1], bytes |-> Tag(sf[2], 1) \o <<0>>] : sf \in SingularFields(typ) }
  \cup { [name |-> sf[1],
          bytes |-> Tag(sf[2], IF sf[3] \in {"bool", "uint64", "int32"} THEN 0 ELSE 2)] :
         sf \in SingularFields(typ) }
  \cup (IF typ = "TransactionLogs"
          THEN {[name |-> "Logs", bytes |-> Tag(2, 2) \o <<2, 10, 5>>],
                [name |-> "Logs", bytes |-> Tag(2, 2) \o <<4, 32, 7, 10, 5>>]}
          ELSE {})

\* Unmarshal is entered with the marshalled bytes followed by a failing field
AppendFailing ==
  /\ pc = "encoded"
  /\ \E ff \in FailingFields(T) :
       /\ dAtA' = dAtA \o ff.bytes
       /\ aux' = [NoAux EXCEPT !.kind = "partial", !.ref = ff.name, !.exp = dAtA]
  /\ m' = Zero(T)
  /\ iNdEx' = 0
  /\ pc' = "decoding"
  /\ UNCHANGED <<T, x, size, err>>

\* the marshalled bytes are decoded as they are or with a failing field behind them
NextPartial ==
  \/ MarshalRecord
  \/ UnmarshalCall
  \/ AppendFailing
  \/ UnmarshalStep
  \/ UnmarshalReturn

SpecPartial == InitPartial /\ [][NextPartial]_vars

\* -- any bytes as input

\* the inputs have at most this many bytes
MaxBytes == 3

\* the tag of the embedded-record field of a type under wire type 2
EmbeddedTag(typ) ==
  CASE typ = "Params" -> {42}
    [] typ = "TransactionLogs" -> {18}
    [] typ = "TxResult" -> {26}
    [] typ = "TraceConfig" -> {82}
    [] OTHER -> {}

\* Bytes that stand for each part a stream can have: 0 and 1 (a zero tag,
\* small values and lengths), 10 and 34 (fields 1 and 4 under wire type 2),
\* 123, 124, 125 (field 15 as group start, group end and fixed32), 255 (a
\* byte with the continuation bit) and the tag of the type's embedded record
ByteValues(typ) == {0, 1, 10, 34, 123, 124, 125, 255} \cup EmbeddedTag(typ)

\* every sequence of at most n such bytes
RECURSIVE ByteStrings(_, _)
ByteStrings(typ, n) ==
  IF n = 0 THEN {<<>>}
  ELSE ByteStrings(typ, n - 1)
       \cup {<<b>> \o s : b \in ByteValues(typ), s \in ByteStrings(typ, n - 1)}

InitBytes ==
  /\ T \in Types
  /\ x = Zero(T)
  /\ size = 0
  /\ dAtA \in ByteStrings(T, MaxBytes)
  /\ m = Zero(T)
  /\ iNdEx = 0
  /\ err = ErrNil
  /\ pc = "start"
  /\ aux = [NoAux EXCEPT !.kind = "bytes"]

\* Unmarshal of a fresh record is entered with the bytes
UnmarshalEnter ==
  /\ pc = "start"
  /\ m' = Zero(T)
  /\ iNdEx' = 0
  /\ pc' = "decoding"
  /\ UNCHANGED <<T, x, size, dAtA, err, aux>>

\* n, err := skipEvm(dAtA); aux.exp takes n
SkipCall ==
  /\ pc = "start"
  /\ \E r \in {skipEvm(dAtA)} :
       /\ err' = r.err
       /\ aux' = [aux EXCEPT !.exp = r.n]
  /\ pc' = "skipped"
  /\ UNCHANGED <<T, x, size, dAtA, m, iNdEx>>

NextBytes == UnmarshalEnter \/ SkipCall \/ UnmarshalStep \/ UnmarshalReturn

\* a call that has been entered runs on until it returns
SpecBytes == InitBytes /\ [][NextBytes]_vars /\ WF_vars(NextBytes)

\* -- two calls on one receiver

\* x and aux.exp are the two records whose bytes are decoded; aux.f counts the
\* calls
InitMerge ==
  /\ T \in Types
  /\ x \in Records(T, 1)
  /\ size = 0
  /\ dAtA = <<>>
  /\ m = Zero(T)
  /\ iNdEx = 0
  /\ err = ErrNil
  /\ pc = "start"
  /\ aux \in {[NoAux EXCEPT !.kind = "merge", !.f = 1, !.exp = y] : y \in Records(T, 1)}

\* b1, _ := x.Marshal(); b2, _ := y.Marshal(); the first call gets b1
MarshalPair ==
  /\ pc = "start"
  /\ \E rs \in {[i \in {1, 2} |-> Marshal(T, IF i = 1 THEN x ELSE aux.exp)]} :
       /\ dAtA' = rs[1].dAtA
       /\ size' = rs[1].size
       /\ err' = rs[1].err
       /\ aux' = [aux EXCEPT !.ref = <<rs[1].dAtA, rs[2].dAtA>>]
  /\ pc' = "encoded"
  /\ UNCHANGED <<T, x, m, iNdEx>>

\* the byte strings a fresh record of the type decodes without an error
DecodableBytes(typ) ==
  {b \in ByteStrings(typ, MaxBytes) : Unmarshal(typ, Zero(typ), b).err = ErrNil}

\* b1 and b2 are any two byte strings that decode; aux.wt marks them as not
\* marshalled from x and aux.exp
TakePair ==
  /\ pc = "start"
  /\ x = Zero(T) /\ aux.exp = Zero(T)
  /\ \E bs \in {DecodableBytes(T)} : \E b1 \in bs : \E b2 \in bs :
       /\ dAtA' = b1
       /\ aux' = [aux EXCEPT !.ref = <<b1, b2>>, !.wt = 1]
  /\ pc' = "encoded"
  /\ UNCHANGED <<T, x, size, m, iNdEx, err>>

\* faulty variant of the second call: Unmarshal starts with m.Reset()
UnmarshalSecond_Reset ==
  /\ pc = "done" /\ aux.f = 1 /\ err = ErrNil
  /\ dAtA' = aux.ref[2]
  /\ m' = Zero(T)
  /\ iNdEx' = 0
  /\ pc' = "decoding"
  /\ aux' = [aux EXCEPT !.f = 2]
  /\ UNCHANGED <<T, x, size, err>>

\* m.Unmarshal(b2) on the receiver the first call filled
UnmarshalSecond ==
  /\ pc = "done" /\ aux.f = 1 /\ err = ErrNil
  /\ dAtA' = aux.ref[2]
  /\ iNdEx' = 0
  /\ pc' = "decoding"
  /\ aux' = [aux EXCEPT !.f = 2]
  /\ UNCHANGED <<T, x, size, m, err>>

\* a fresh record's Unmarshal(append(b1, b2...)); aux.mid keeps the receiver of
\* the two calls
UnmarshalConcatenated ==
  /\ pc = "done" /\ aux.f = 2 /\ err = ErrNil
  /\ dAtA' = aux.ref[1] \o aux.ref[2]
  /\ m' = Zero(T)
  /\ iNdEx' = 0
  /\ pc' = "decoding"
  /\ aux' = [aux EXCEPT !.f = 3, !.mid = m]
  /\ UNCHANGED <<T, x, size, err>>

NextMerge ==
  \/ MarshalPair
  \/ TakePair
  \/ UnmarshalCall
  \/ UnmarshalStep
  \/ UnmarshalReturn
  \/ UnmarshalSecond
  \/ UnmarshalConcatenated

SpecMerge == InitMerge /\ [][NextMerge]_vars

\* -- records whose Logs hold a nil entry

\* []*Log values with a nil pointer among the entries
NilLogsValues == {<< <<>> >>, << <<LogA>>, <<>> >>, << <<>>, <<LogB>> >>}

\* the records of InitWith(Types, 1) and, for the two types that reach a Logs
\* slice, records with a nil entry in it
InitNilEntry ==
  /\ T \in Types
  /\ x \in Records(T, 1)
          \cup (IF T = "TransactionLogs"
                  THEN {[Hash |-> h, Logs |-> l] : h \in {<<>>, StrA}, l \in NilLogsValues}
                ELSE IF T = "TxResult"
                  THEN {[ZeroTxResult EXCEPT !.TxLogs = [Hash |-> <<>>, Logs |-> l]]
                          : l \in NilLogsValues}
                ELSE {})
  /\ size = 0
  /\ dAtA = <<>>
  /\ m = Zero(T)
  /\ iNdEx = 0
  /\ err = ErrNil
  /\ pc = "start"
  /\ aux = NoAux

SpecNilEntry == InitNilEntry /\ [][Next]_vars

\* -- two calls at a time

\* Two goroutines each run Marshal and then Unmarshal on a record and buffers
\* of their own.  The variables hold the locals of the goroutine that is
\* running, aux.exp those of the one that waits, under the same names; aux.f
\* numbers the running one.  The code keeps no package-level variable that
\* Size, Marshal or Unmarshal write, and the scratch buffer dAtA3 of
\* Params.MarshalToSizedBuffer is a local, so a step of MarshalRecord,
\* UnmarshalCall, UnmarshalStep or UnmarshalReturn assigns only the locals of
\* the running goroutine.
SecondCallRecords ==
  {[T |-> "Params", x |-> [ZeroParams EXCEPT !.ExtraEIPs = <<U64(1), U64(2), U64(1559)>>]],
   [T |-> "Params", x |-> [ZeroParams EXCEPT !.EvmDenom = StrA,
                                             !.ExtraEIPs = <<I64(-1), U64(300)>>]],
   [T |-> "TransactionLogs", x |-> [Hash |-> StrA, Logs |-> << <<LogB>>, <<LogA>> >>]]}

InitConcurrent ==
  /\ T \in Types
  /\ x \in Records(T, 1)
  /\ size = 0
  /\ dAtA = <<>>
  /\ m = Zero(T)
  /\ iNdEx = 0
  /\ err = ErrNil
  /\ pc = "start"
  /\ aux \in {[NoAux EXCEPT !.kind = "concurrent", !.f = 1,
                            !.exp = [T |-> c.T, x |-> c.x, size |-> 0, dAtA |-> <<>>,
                                     m |-> Zero(c.T), iNdEx |-> 0, err |-> ErrNil,
                                     pc |-> "start"]]
              : c \in SecondCallRecords}

\* faulty variant of Switch: the cursor is one variable shared by the two calls
Switch_SharedCursor ==
  /\ aux.exp.pc # "done" \/ pc # "done"
  /\ T' = aux.exp.T
  /\ x' = aux.exp.x
  /\ size' = aux.exp.size
  /\ dAtA' = aux.exp.dAtA
  /\ m' = aux.exp.m
  /\ err' = aux.exp.err
  /\ pc' = aux.exp.pc
  /\ aux' = [aux EXCEPT !.f = 3 - aux.f,
                        !.exp = [T |-> T, x |-> x, size |-> size, dAtA |-> dAtA, m |-> m,
                                 iNdEx |-> iNdEx, err |-> err, pc |-> pc]]
  /\ UNCHANGED iNdEx

\* the scheduler lets the other goroutine run: between any two steps, while
\* either call has steps left
Switch ==
  /\ aux.exp.pc # "done" \/ pc # "done"
  /\ T' = aux.exp.T
  /\ x' = aux.exp.x
  /\ size' = aux.exp.size
  /\ dAtA' = aux.exp.dAtA
  /\ m' = aux.exp.m
  /\ iNdEx' = aux.exp.iNdEx
  /\ err' = aux.exp.err
  /\ pc' = aux.exp.pc
  /\ aux' = [aux EXCEPT !.f = 3 - aux.f,
                        !.exp = [T |-> T, x |-> x, size |-> size, dAtA |-> dAtA, m |-> m,
                                 iNdEx |-> iNdEx, err |-> err, pc |-> pc]]

NextConcurrent ==
  MarshalRecord \/ UnmarshalCall \/ UnmarshalStep \/ UnmarshalReturn \/ Switch

SpecConcurrent == InitConcurrent /\ [][NextConcurrent]_vars

\* -- encodeVarintEvm and the varint loop on one value

\* the buffer encodeVarintEvm writes into has this many bytes
VarintBufLen == 12

\* 64-bit values of every length from 1 to 10 groups, 0 and 2^64 - 1 among them
VarintValues ==
  { <<a, b, c, d, e, f, g, h, i, j>> :
      a \in {0, 1, 127}, b \in {0, 1, 127}, c \in {0, 127}, d \in {0, 127}, e \in {0, 127},
      f \in {0, 127}, g \in {0, 127}, h \in {0, 64, 127}, i \in {0, 127}, j \in {0, 1} }

\* x is the value v, aux.f the offset handed to encodeVarintEvm
InitVarint ==
  /\ T = "uint64"
  /\ x \in VarintValues
  /\ size = 0
  /\ dAtA = Zeros(VarintBufLen)
  /\ m = Zero64
  /\ iNdEx = 0
  /\ err = ErrNil
  /\ pc = "start"
  /\ aux \in {[NoAux EXCEPT !.kind = "varint", !.f = off] : off \in {10, 11, VarintBufLen}}

\* iNdEx = encodeVarintEvm(dAtA, offset, v); size is sovEvm(v)
EncodeVarint ==
  /\ pc = "start"
  /\ \E s \in {encodeVarintEvm([d |-> dAtA, i |-> aux.f, ok |-> TRUE], x)} :
       /\ dAtA' = s.d
       /\ iNdEx' = s.i
       /\ err' = IF s.ok THEN ErrNil ELSE ErrPanic
  /\ size' = sovEvm(x)
  /\ pc' = "encoded"
  /\ UNCHANGED <<T, x, m, aux>>

\* the varint loop of the decoders, from the offset encodeVarintEvm returned
DecodeVarint ==
  /\ pc = "encoded"
  /\ \E r \in {ReadVarint(dAtA, iNdEx)} :
       /\ m' = r.v
       /\ iNdEx' = r.iNdEx
       /\ err' = r.err
  /\ pc' = "done"
  /\ UNCHANGED <<T, x, size, dAtA, aux>>

NextVarint == EncodeVarint \/ DecodeVarint

SpecVarint == InitVarint /\ [][NextVarint]_vars

\* ------------------------------------------------------------ claims

\* C1: Round trip.  For each of the eight record types and every record x,
\* Unmarshal on a fresh zero record with the bytes of x.Marshal() succeeds and
\* leaves a record equal to x field by field, nested records and repeated
\* fields included.
C1_RoundTrip ==
  /\ pc # "start" => err = ErrNil
  /\ (pc = "done" /\ aux.kind = "marshalled") => m = x

C1_Witness ==
  /\ pc = "done" /\ T = "TxResult" /\ err = ErrNil /\ m = x
  /\ Len(x.TxLogs.Logs) = 2 /\ x.GasUsed = Not64(Zero64)

\* C2: Size consistency.  For every record type and record x no write falls
\* outside the buffer of x.Size() bytes and the number of bytes written by
\* MarshalToSizedBuffer, which Marshal returns, equals x.Size() exactly.
C2_SizeConsistency ==
  /\ err # ErrPanic
  /\ pc = "encoded" => Len(dAtA) = size

C2_Witness ==
  /\ pc = "encoded" /\ T = "ChainConfig" /\ x.LondonBlock = <<IntOf(-12)>>
  /\ x.CancunBlock # <<>> /\ Len(dAtA) = size /\ size >= 10

\* C3 as stated: State{Key: "0xabc", Value: "0x01"} marshals to tag 0x0a,
\* length byte 4, "0xabc", tag 0x12, length byte 4, "0x01".
C3_Original ==
  (pc = "encoded" /\ T = "State" /\ x = [Key |-> Str0xabc, Value |-> Str0x01])
    => dAtA = <<10, 4>> \o Str0xabc \o <<18, 4>> \o Str0x01

\* C3 amended: State{Key: "0xabc", Value: "0x01"} marshals to tag 0x0a, length
\* byte 5, the five bytes of "0xabc", tag 0x12, length byte 4, the four bytes
\* of "0x01"; unmarshalling that byte sequence reproduces the State value.
C3_StateScenario ==
  (T = "State" /\ x = [Key |-> Str0xabc, Value |-> Str0x01]) =>
    /\ pc # "start" => dAtA = <<10, 5, 48, 120, 97, 98, 99, 18, 4, 48, 120, 48, 49>>
    /\ pc = "done" => err = ErrNil /\ m = [Key |-> Str0xabc, Value |-> Str0x01]

C3_Witness ==
  /\ pc = "done" /\ T = "State" /\ x = [Key |-> Str0xabc, Value |-> Str0x01]
  /\ m = x /\ Len(dAtA) = 13

\* C4: Optional-field presence.  For every ChainConfig and each optional
\* extended-precision field, Marshal then Unmarshal keeps presence and value:
\* a nil field emits no tag and decodes to nil; a present zero emits its tag
\* and decodes to a present zero; a present positive or negative value decodes
\* to the same value.
C4_OptionalPresence ==
  (T = "ChainConfig" /\ aux.kind = "marshalled") =>
    /\ pc = "encoded" =>
         \E nums \in {FieldNumsIn(dAtA)} :
           \A f \in DOMAIN IntFieldNums : x[f] = <<>> <=> IntFieldNums[f] \notin nums
    /\ pc = "done" =>
         /\ err = ErrNil
         /\ \A f \in DOMAIN IntFieldNums :
              /\ m[f] = x[f]
              /\ (x[f] # <<>> => ~m[f][1].bigNil /\ m[f][1].v = x[f][1].v)

C4_Witness ==
  /\ pc = "done" /\ T = "ChainConfig"
  /\ x.HomesteadBlock = <<IntOf(0)>> /\ m.HomesteadBlock = <<IntOf(0)>>
  /\ x.ShanghaiBlock = <<IntOf(-12)>> /\ m.ShanghaiBlock = <<IntOf(-12)>>
  /\ x.DAOForkBlock = <<>> /\ m.DAOForkBlock = <<>>

\* C6: Repeated fields keep element order through Marshal then Unmarshal: for
\* TransactionLogs.Logs, Log.Topics and AccessTuple.StorageKeys the decoded
\* sequence has the length of the original and its i-th element equals the
\* original's i-th element.
SameOrder(a, b) == Len(a) = Len(b) /\ \A k \in 1..Len(a) : a[k] = b[k]
C6_RepeatedOrder ==
  (pc = "done" /\ aux.kind = "marshalled") =>
    /\ T = "TransactionLogs" => SameOrder(m.Logs, x.Logs)
    /\ T = "Log" => SameOrder(m.Topics, x.Topics)
    /\ T = "AccessTuple" => SameOrder(m.StorageKeys, x.StorageKeys)
    /\ T = "TxResult" => SameOrder(m.TxLogs.Logs, x.TxLogs.Logs)

C6_Witness ==
  /\ pc = "done" /\ T = "TransactionLogs"
  /\ x.Logs = <<<<LogC>>, <<LogA>>, <<LogB>>>>
  /\ m.Logs[1] = <<LogC>> /\ m.Logs[2] = <<LogA>> /\ m.Logs[3] = <<LogB>>

\* C5: Params.Unmarshal takes field 4 in both forms and appends in stream
\* order: a stream of packed runs (wire kind 2) and unpacked occurrences (one
\* wire-kind-0 tag per element), in any mix, decodes to the concatenation of
\* their elements in order of appearance; a single packed run of a list L and
\* the unpacked stream of L both decode to L.
C5_PackedUnpacked ==
  (pc = "done" /\ aux.kind = "eips") => err = ErrNil /\ m.ExtraEIPs = aux.exp

C5_Witness ==
  /\ pc = "done" /\ aux.kind = "eips" /\ err = ErrNil
  /\ dAtA = <<34, 4, 1, 2, 151, 12, 32, 1>>
  /\ m.ExtraEIPs = <<U64(1), U64(2), U64(1559), U64(1)>>

\* C7: for every record x and every strict prefix of x.Marshal() that ends
\* inside a field, Unmarshal of the prefix returns io.ErrUnexpectedEOF.
C7_Truncation ==
  (pc = "done" /\ aux.kind = "truncated" /\ aux.mid) => err = ErrUnexpectedEOF

C7_Witness ==
  /\ pc = "done" /\ aux.kind = "truncated" /\ aux.mid /\ err = ErrUnexpectedEOF
  /\ T = "TxResult" /\ x.TxLogs.Logs # <<>> /\ Len(dAtA) = 6

\* C8: a stream of one recognized field and one field of a number outside the
\* type's table decodes successfully to the record the stream without the
\* unknown field decodes to, for an unknown field of wire kind 0, 1, 2, 5 or a
\* balanced group 3 ... 4, put before or after the recognized field.
C8_UnknownIgnored ==
  (pc = "done" /\ aux.kind = "unknown") =>
    /\ err = ErrNil
    /\ Unmarshal(T, Zero(T), aux.ref).err = ErrNil
    /\ m = Unmarshal(T, Zero(T), aux.ref).m

C8_Witness ==
  /\ pc = "done" /\ aux.kind = "unknown" /\ err = ErrNil
  /\ T = "State" /\ x.Value = Str0x01 /\ m = x
  /\ aux.wt = 3 /\ SubSeq(dAtA, 1, 2) = <<123, 123>>

\* C9: unknown fields are not retained: when a stream decodes successfully
\* into a record r, r.Marshal() holds no field of a number outside the type's
\* table and equals the Marshal() of the record decoded from the stream
\* without its unknown fields.
C9_UnknownDropped ==
  (pc = "done" /\ aux.kind = "unknown" /\ err = ErrNil) =>
    \E out \in {Marshal(T, m)} :
      /\ out.err = ErrNil
      /\ FieldNumsIn(out.dAtA) \subseteq KnownFieldNums(T)
      /\ out.dAtA = Marshal(T, Unmarshal(T, Zero(T), aux.ref).m).dAtA

C9_Witness ==
  /\ pc = "done" /\ aux.kind = "unknown" /\ err = ErrNil
  /\ T = "AccessTuple" /\ x.StorageKeys = <<StrA, Str0x01>> /\ aux.f = 100 /\ aux.wt = 2
  /\ 100 \in FieldNumsIn(dAtA) /\ 100 \notin FieldNumsIn(Marshal(T, m).dAtA)
  /\ Marshal(T, m).dAtA = aux.ref

\* C10 as stated: the tag of a recognized field under any wire kind other than
\* the assigned one makes Unmarshal fail with the wire-type-mismatch error.
C10_Original ==
  (pc = "done" /\ aux.kind = "tagged" /\ ~aux.mid) => err = ErrWrongWireType

\* C10 amended: the tag of a recognized field under a wire kind other than the
\* assigned one makes Unmarshal fail: with the wire-type-mismatch error for
\* every such kind but 4, and with the "wiretype end group for non-group"
\* error, raised before the field is looked up, for kind 4.  Under an assigned
\* kind neither error is returned, and the only field with two assigned kinds
\* is Params field 4, which takes exactly 0 and 2.
C10_WireTypeMismatch ==
  /\ (pc = "done" /\ aux.kind = "tagged") =>
       /\ (~aux.mid /\ aux.wt # 4) => err = ErrWrongWireType
       /\ (~aux.mid /\ aux.wt = 4) => err = ErrEndGroupNonGroup
       /\ aux.mid => err \in {ErrNil, ErrUnexpectedEOF}
       /\ (T = "Params" /\ aux.f = 4) => (aux.mid <=> aux.wt \in {0, 2})
  /\ \A f \in KnownFieldNums(T) :
       Cardinality(AssignedWireTypes(T, f)) > 1 => T = "Params" /\ f = 4

C10_Witness ==
  /\ pc = "done" /\ aux.kind = "tagged" /\ T = "Log" /\ aux.f = 4 /\ aux.wt = 2
  /\ ~aux.mid /\ err = ErrWrongWireType /\ x # ZeroLog

\* C11: when a singular string, bytes, boolean, integer or optional
\* extended-precision field occurs twice in a stream, the decoded field holds
\* the value of the last occurrence only: nothing of the earlier one survives.
C11_LastOccurrence ==
  (pc = "done" /\ aux.kind = "duplicate") => err = ErrNil /\ m = aux.exp

C11_Witness ==
  /\ pc = "done" /\ aux.kind = "duplicate" /\ T = "Log" /\ aux.f = 3
  /\ aux.ref = <<<<0, 255>>>> /\ m.Data = <<7>>

\* the embedded record of a finished run over two occurrences
EmbeddedOf(rec) == IF aux.exp[5] THEN rec[aux.exp[2]][1] ELSE rec[aux.exp[2]]

\* C12 as stated: when a singular embedded-record field occurs twice in a
\* stream, the decoded embedded record equals the record obtained by decoding
\* the last occurrence alone.
C12_Original ==
  (pc = "done" /\ aux.kind = "embedded") => err = ErrNil /\ EmbeddedOf(m) = aux.ref[2]

\* C12 amended: when a singular embedded-record field occurs twice in a
\* stream, the second occurrence is decoded into the record the first one
\* left: a singular sub-field takes the value of the second occurrence when
\* the second carries it and keeps the value of the first otherwise, and a
\* repeated sub-field holds the elements of the first followed by those of the
\* second.
C12_EmbeddedMerged ==
  (pc = "done" /\ aux.kind = "embedded") =>
    /\ err = ErrNil
    /\ \E e1 \in {aux.ref[1]} : \E e2 \in {aux.ref[2]} : \E got \in {EmbeddedOf(m)} :
         \A g \in DOMAIN got :
           got[g] = IF g = "Logs" THEN e1[g] \o e2[g]
                    ELSE IF e2[g] # Zero(aux.exp[4])[g] THEN e2[g] ELSE e1[g]

C12_Witness ==
  /\ pc = "done" /\ aux.kind = "embedded" /\ T = "Params" /\ err = ErrNil
  /\ aux.ref[1].HomesteadBlock = <<IntOf(0)>> /\ aux.ref[2].HomesteadBlock = <<>>
  /\ aux.ref[2].DAOForkSupport
  /\ m.ChainConfig.HomesteadBlock = <<IntOf(0)>> /\ m.ChainConfig.DAOForkSupport

\* C13: Marshal has no failure mode: for every record of every type, a
\* TransactionLogs or TxResult.TxLogs whose Logs holds a nil entry included, it
\* returns the bytes and a nil error without panicking.
C13_MarshalNeverFails ==
  aux.kind = "marshalled" =>
    /\ err # ErrPanic
    /\ pc \in {"encoded", "decoding"} => err = ErrNil

\* a nil entry is counted as tag and zero length by Size, and Marshal panics
C13_Witness ==
  /\ pc = "done" /\ T = "TransactionLogs" /\ x = [Hash |-> <<>>, Logs |-> << <<>> >>]
  /\ size = 2 /\ err = ErrPanic

\* C14: a singular primitive field holding its default value (false, 0, empty
\* string, empty bytes) contributes neither tag nor payload to Marshal and zero
\* to Size; a true boolean is emitted as its one-byte tag followed by 0x01.
C14_DefaultsOmitted ==
  (pc = "encoded" /\ aux.kind = "marshalled") =>
    /\ \E wf \in {WireFields(dAtA)} :
         \A fld \in SingularFields(T) :
           /\ (fld[3] # "Int" /\ x[fld[1]] = Zero(T)[fld[1]]) =>
                \A k \in 1..Len(wf) : wf[k].num # fld[2]
           /\ (fld[3] = "bool" /\ x[fld[1]]) =>
                \E k \in 1..Len(wf) :
                  /\ wf[k].num = fld[2]
                  /\ Slice(dAtA, wf[k].from, wf[k].to) = <<8 * fld[2], 1>>
    /\ (x = Zero(T) /\ T \notin {"Params", "TxResult"}) => size = 0 /\ dAtA = <<>>
    /\ (x = Zero(T) /\ T \in {"Params", "TxResult"}) => size = 2

C14_Witness ==
  /\ pc = "encoded" /\ T = "TraceConfig" /\ x.Debug /\ x.Reexec = Zero64
  /\ x.Tracer = <<>> /\ ~x.DisableStack /\ dAtA = <<64, 1>> /\ size = 2

\* what a call on record rec of type typ has when it has come to position at
\* and runs alone
AloneAt(typ, rec, call) ==
  /\ call.pc # "start" => call.size = Size(typ, rec)
  /\ call.pc \in {"encoded", "decoding", "done"} =>
       call.dAtA = Marshal(typ, rec).dAtA
  /\ call.pc = "decoding" =>
       /\ call.err = ErrNil
       /\ UnmarshalFrom(typ, call.m, call.dAtA, call.iNdEx)
            = Unmarshal(typ, Zero(typ), Marshal(typ, rec).dAtA)
  /\ call.pc = "done" =>
       /\ call.err = Unmarshal(typ, Zero(typ), Marshal(typ, rec).dAtA).err
       /\ call.m = Unmarshal(typ, Zero(typ), Marshal(typ, rec).dAtA).m

C16_VarintEncoding ==
  aux.kind = "varint" =>
    /\ pc = "encoded" =>
         /\ err = ErrNil
         /\ size \in 1..10
         /\ iNdEx = aux.f - size
         /\ \A k \in 1..VarintBufLen :
              dAtA[k] = IF k <= iNdEx \/ k > aux.f THEN 0
                        ELSE IF k = aux.f THEN x[k - iNdEx]
                        ELSE x[k - iNdEx] + 128
         /\ dAtA[aux.f] < 128
    /\ pc = "done" => err = ErrNil /\ m = x /\ iNdEx = aux.f

C16_Witness ==
  /\ aux.kind = "varint" /\ pc = "done" /\ x = Not64(Zero64) /\ m = x /\ size = 10
  /\ aux.f = 10 /\ dAtA = <<255, 255, 255, 255, 255, 255, 255, 255, 255, 1, 0, 0>>

\* C17: at every varint position of the decoder (tag, length prefix, scalar
\* value, packed element, skipper) ten consecutive bytes that all carry the
\* continuation bit make the decoding fail with ErrIntOverflowEvm whatever
\* follows them, also when the buffer ends right after the tenth byte: the
\* overflow test comes before the end-of-buffer test.
C17_TenContinuationBytes ==
  (pc = "done" /\ aux.kind = "overflow") => err = ErrIntOverflowEvm

C17_Witness ==
  /\ pc = "done" /\ aux.kind = "overflow" /\ aux.ref = "packed" /\ aux.mid
  /\ dAtA = <<34, 10, 255, 255, 255, 255, 255, 255, 255, 255, 255, 255>>
  /\ err = ErrIntOverflowEvm

\* C18: decoding fails with ErrIntOverflowEvm for every varint whose value
\* does not fit in 64 bits: a ten-byte varint whose tenth byte is greater
\* than 1 is not accepted with its high bits discarded.
C18_WideVarintRejected ==
  (pc = "done" /\ aux.kind = "wide" /\ aux.f > 1) => err = ErrIntOverflowEvm

\* such a varint is accepted: the BlockNumber of a Log becomes the low 64 bits
C18_Witness ==
  /\ pc = "done" /\ aux.kind = "wide" /\ T = "Log"
  /\ dAtA = <<32, 255, 255, 255, 255, 255, 255, 255, 255, 255, 126>>
  /\ err = ErrNil
  /\ m.BlockNumber = <<127, 127, 127, 127, 127, 127, 127, 127, 127, 0>>

\* the varints that lie entirely within bs, from index i on
RECURSIVE VarintsWithin(_, _)
VarintsWithin(bs, i) ==
  IF i >= Len(bs) THEN <<>>
  ELSE Only({ IF r.err # ErrNil THEN <<>> ELSE <<r.v>> \o VarintsWithin(bs, r.iNdEx)
              : r \in {ReadVarint(bs, i)} })

\* C19: when Params.Unmarshal decodes a packed ExtraEIPs run of declared
\* length n that starts at cursor c, the appended elements are the varints
\* that lie entirely within bytes [c, c+n) and the cursor after the field is
\* exactly c+n.
C19_RunWithinLength ==
  [][(aux.kind = "run" /\ pc = "decoding" /\ iNdEx = 0 /\ err' = ErrNil)
       => /\ iNdEx' = aux.f
          /\ m'.ExtraEIPs = VarintsWithin(aux.ref, 0)]_vars

\* a run of declared length 1 whose only byte carries the continuation bit:
\* the byte behind the run completes the element and the cursor ends behind it
C19_Witness ==
  /\ pc = "done" /\ aux.kind = "run" /\ aux.f = 3
  /\ dAtA = <<34, 1, 128, 1>>
  /\ err = ErrNil
  /\ m.ExtraEIPs = <<U64(128)>>
  /\ iNdEx = 4

\* C20 as stated: a group end with no open group start gives
\* ErrUnexpectedEndOfGroupEvm, from skipEvm at depth zero and from the
\* Unmarshal of any record that meets it at the top level.
C20_Original ==
  (aux.kind = "endgroup" /\ pc \in {"skipped", "done"}) => err = ErrUnexpectedEndOfGroupEvm

\* C20: skipEvm given a group end at depth zero fails with
\* ErrUnexpectedEndOfGroupEvm; the Unmarshal of a record that meets a group
\* end at the top level fails with the "wiretype end group for non-group"
\* error, and never with ErrUnexpectedEndOfGroupEvm.
C20_EndGroup ==
  aux.kind = "endgroup" =>
    /\ pc = "skipped" => err = ErrUnexpectedEndOfGroupEvm
    /\ pc = "done" => err = ErrEndGroupNonGroup

C20_Witness ==
  /\ aux.kind = "endgroup" /\ pc = "done" /\ T = "State"
  /\ dAtA = <<123, 124, 12>>
  /\ err = ErrEndGroupNonGroup

\* C21: skipEvm, given a buffer that starts at an unknown field's tag, returns
\* io.ErrUnexpectedEOF whenever the field's payload would extend past the end
\* of the buffer; it never returns a nil error with a skip length greater
\* than the buffer length.
C21_SkipTruncated ==
  (aux.kind = "cut" /\ pc = "skipped") =>
    /\ err = ErrUnexpectedEOF
    /\ ~(err = ErrNil /\ iNdEx > Len(dAtA))

\* a fixed32 field with three payload bytes: nil error, skip length 5 of 4
C21_Witness ==
  /\ aux.kind = "cut" /\ pc = "skipped"
  /\ dAtA = <<125, 1, 2, 3>>
  /\ err = ErrNil /\ iNdEx = 5

\* C22: a length prefix that is negative as a signed 64-bit integer, or whose
\* addition to the cursor overflows to a negative index, makes the decoding
\* fail with ErrInvalidLengthEvm; a length that is not negative and reaches
\* past the end of the buffer gives io.ErrUnexpectedEOF.
C22_NegativeLength ==
  (aux.kind = "length" /\ pc = "done") =>
    err = IF aux.ref = "beyond" THEN ErrUnexpectedEOF ELSE ErrInvalidLengthEvm

\* the packed run of Params.ExtraEIPs with the length 2^63 - 1
C22_Witness ==
  /\ aux.kind = "length" /\ pc = "done" /\ T = "Params" /\ aux.f = 4
  /\ aux.ref = "overflow"
  /\ dAtA = <<34, 255, 255, 255, 255, 255, 255, 255, 255, 127, 1, 2>>
  /\ err = ErrInvalidLengthEvm

\* C23: Unmarshal never succeeds on a stream with a top-level tag of wire
\* kind 6 or 7: under an unknown field number skipEvm rejects it with the
\* illegal wireType error, under a recognized field number the field's case
\* rejects it with the wrong wireType error.
C23_IllegalWireType ==
  (aux.kind = "illegalwire" /\ pc = "done") =>
    err = IF aux.mid THEN ErrWrongWireType ELSE ErrIllegalWireType

\* wire kind 7 under the unknown field number 100, behind a skipped field
C23_Witness ==
  /\ aux.kind = "illegalwire" /\ pc = "done" /\ T = "State"
  /\ aux.f = 100 /\ aux.wt = 7
  /\ dAtA = <<120, 5, 167, 6, 0>>
  /\ err = ErrIllegalWireType

\* C24: a field whose number is at least 1 and not in the record's field
\* table is passed to skipEvm and changes no field of the record, for every
\* field number a 64-bit tag can hold: those of 2^31 and above and those equal
\* to a recognized number plus a multiple of 2^32 included.
C24_WideFieldNumberSkipped ==
  (aux.kind = "widetag" /\ pc = "done") => err = ErrNil /\ m = Zero(T)

\* field number 1 + 2^32 under wire type 2 is decoded as State.Key
C24_Witness ==
  /\ aux.kind = "widetag" /\ pc = "done" /\ T = "State"
  /\ dAtA = <<138, 128, 128, 128, 128, 1, 1, 49>>
  /\ err = ErrNil
  /\ m.Key = <<49>>

\* ten bytes of bs from the 0-based index i on are the varint of a negative
\* 64-bit value: nine bytes with the continuation bit, then the byte 1
NegativeVarintAt(bs, i) ==
  /\ i + 10 <= Len(bs)
  /\ \A k \in 1..9 : bs[i + k] >= 128
  /\ bs[i + 10] = 1

\* C25: signed integer fields are plain two's-complement varints: a negative
\* TraceConfig.Limit and a negative first element of Params.ExtraEIPs are
\* sign-extended to 64 bits, take exactly ten varint bytes, which Size counts,
\* and decode back to the same negative value.
C25_NegativeVarints ==
  /\ (T = "TraceConfig" /\ x.Limit[5] >= 8) =>
       /\ pc = "encoded" =>
            /\ size = Len(dAtA)
            /\ \E k \in 1..Len(WireFields(dAtA)) :
                 /\ WireFields(dAtA)[k].num = 9
                 /\ WireFields(dAtA)[k].wt = 0
                 /\ WireFields(dAtA)[k].to = WireFields(dAtA)[k].from + 11
                 /\ NegativeVarintAt(dAtA, WireFields(dAtA)[k].from + 1)
       /\ pc = "done" => err = ErrNil /\ m.Limit = x.Limit
  /\ (T = "Params" /\ Len(x.ExtraEIPs) > 0 /\ IsNeg64(x.ExtraEIPs[1])) =>
       /\ pc = "encoded" =>
            /\ size = Len(dAtA)
            /\ \E k \in 1..Len(WireFields(dAtA)) :
                 /\ WireFields(dAtA)[k].num = 4
                 /\ WireFields(dAtA)[k].wt = 2
                 /\ NegativeVarintAt(dAtA, WireFields(dAtA)[k].from + 2)
       /\ pc = "done" => err = ErrNil /\ m.ExtraEIPs = x.ExtraEIPs

\* Limit = -2^31 has come back from the eleven bytes 0x48, 0x80 x 4, 0xF8,
\* 0xFF x 4, 0x01
C25_Witness ==
  /\ pc = "done" /\ T = "TraceConfig" /\ x.Limit = I32(-2147483647 - 1)
  /\ dAtA = <<72, 128, 128, 128, 128, 248, 255, 255, 255, 255, 1>>
  /\ size = 11
  /\ m.Limit = x.Limit

\* C26: the embedded records held by value are always emitted: the bytes of a
\* Params hold field 5 and those of a TxResult field 3 under wire type 2,
\* also when the ChainConfig / TransactionLogs is empty, so a zero Params is
\* the two bytes 0x2a 0x00 and a zero TxResult 0x1a 0x00; field 10 of a
\* TraceConfig is emitted exactly when Overrides is not nil.
C26_EmbeddedAlwaysEmitted ==
  /\ (T \in {"Params", "TxResult", "TraceConfig"} /\ pc # "start") => err = ErrNil
  /\ pc = "encoded" =>
       /\ T = "Params" =>
            /\ \E k \in 1..Len(WireFields(dAtA)) :
                 WireFields(dAtA)[k].num = 5 /\ WireFields(dAtA)[k].wt = 2
            /\ x = ZeroParams => dAtA = <<42, 0>>
       /\ T = "TxResult" =>
            /\ \E k \in 1..Len(WireFields(dAtA)) :
                 WireFields(dAtA)[k].num = 3 /\ WireFields(dAtA)[k].wt = 2
            /\ x = ZeroTxResult => dAtA = <<26, 0>>
       /\ T = "TraceConfig" =>
            /\ (10 \in FieldNumsIn(dAtA)) = (x.Overrides # <<>>)
            /\ x = [ZeroTraceConfig EXCEPT !.Overrides = <<ZeroChainConfig>>] =>
                 dAtA = <<82, 0>>
            /\ x = ZeroTraceConfig => dAtA = <<>>

C26_Witness ==
  /\ pc = "encoded" /\ T = "TxResult" /\ x = ZeroTxResult
  /\ dAtA = <<26, 0>> /\ size = 2

\* C27: Unmarshal writes into the record as it goes and does not roll back:
\* when it returns an error, every field decoded before the failing field
\* keeps its decoded value and a repeated field keeps the elements appended so
\* far, the element under decoding included.
C27_NoRollback ==
  (aux.kind = "partial" /\ pc = "done") =>
    /\ err # ErrNil
    /\ \A g \in DOMAIN x : g # aux.ref => m[g] = x[g]
    /\ aux.ref = "Logs" =>
         /\ Len(m.Logs) = Len(x.Logs) + 1
         /\ SubSeq(m.Logs, 1, Len(x.Logs)) = x.Logs

\* the Hash and two Logs were decoded, the third element failed in its
\* Address after its BlockNumber was set: the record is neither zero nor x
C27_Witness ==
  /\ aux.kind = "partial" /\ pc = "done" /\ T = "TransactionLogs"
  /\ aux.ref = "Logs" /\ Len(x.Logs) = 2
  /\ err = ErrUnexpectedEOF
  /\ Len(m.Logs) = 3
  /\ m.Logs[3][1].BlockNumber = U64(7)
  /\ m # x /\ m # Zero(T)

\* C28: Unmarshal and skipEvm terminate on every input: every turn of the
\* main loop moves the cursor forward by at least one byte or returns, every
\* call that is entered returns, and a successful Unmarshal ends with the
\* cursor at the length of the input.
C28_Terminates ==
  /\ [][(pc = "decoding" /\ pc' = "decoding") => iNdEx' > iNdEx]_vars
  /\ [](pc = "done" /\ err = ErrNil => iNdEx = Len(dAtA))
  /\ (pc \in {"start", "decoding"}) ~> (pc \in {"done", "skipped"})

\* three skipped fields, one turn each: a group, a varint, a fixed32 cut short
C28_Witness ==
  /\ aux.kind = "bytes" /\ pc = "done" /\ T = "State"
  /\ dAtA = <<123, 124, 125>>
  /\ iNdEx = 2
  /\ err = ErrUnexpectedEOF

\* the errors Unmarshal and skipEvm return
ReturnedErrors ==
  {ErrNil, ErrUnexpectedEOF, ErrInvalidLengthEvm, ErrIntOverflowEvm,
   ErrUnexpectedEndOfGroupEvm, ErrEndGroupNonGroup, ErrIllegalTag, ErrWrongWireType,
   ErrIllegalWireType, ErrIntText}

\* C29: for every byte sequence, each record's Unmarshal and skipEvm return
\* success or an error and read the input only inside it: the cursor of the
\* main loop stays within 0..len(input), and an embedded record's decoder is
\* given the bytes of its declared length only: behind an embedded record of
\* declared length 0 the record decoded is the zero record, and the byte that
\* follows is read as a field of the outer record.
C29_InBounds ==
  aux.kind = "bytes" =>
    /\ err \in ReturnedErrors
    /\ iNdEx \in 0..Len(dAtA)
    /\ (pc = "done" /\ Len(dAtA) >= 2 /\ dAtA[1] \in EmbeddedTag(T) /\ dAtA[2] = 0) =>
         /\ Len(dAtA) = 2 => err = ErrNil
         /\ T = "Params" => m.ChainConfig = ZeroChainConfig
         /\ T = "TxResult" => m.TxLogs = ZeroTransactionLogs
         /\ T = "TraceConfig" => m.Overrides = <<ZeroChainConfig>>
         /\ T = "TransactionLogs" =>
              /\ Len(m.Logs) >= 1 /\ m.Logs[1] = <<ZeroLog>>
              /\ dAtA = <<18, 0, 34>> => err = ErrUnexpectedEOF

\* an unknown length-delimited field that declares more bytes than follow
C29_Witness ==
  /\ aux.kind = "bytes" /\ pc = "done" /\ T = "TxResult"
  /\ dAtA = <<26, 0, 123>>
  /\ m.TxLogs = ZeroTransactionLogs
  /\ err = ErrUnexpectedEOF
  /\ iNdEx = 2

\* the fields that are slices of elements
RepeatedFields == {"ExtraEIPs", "Logs", "Topics", "StorageKeys"}

\* b laid over a, for a record type without embedded records
MergedFlat(typ, a, b) ==
  [g \in DOMAIN a |->
     IF g \in RepeatedFields THEN a[g] \o b[g]
     ELSE IF b[g] # Zero(typ)[g] THEN b[g] ELSE a[g]]

\* b laid over a: an embedded record is laid over field by field
Merged(typ, a, b) ==
  [g \in DOMAIN a |->
     IF g = "ChainConfig" THEN MergedFlat("ChainConfig", a[g], b[g])
     ELSE IF g = "TxLogs" THEN MergedFlat("TransactionLogs", a[g], b[g])
     ELSE IF g = "Overrides"
       THEN IF b[g] = <<>> THEN a[g]
            ELSE IF a[g] = <<>> THEN b[g]
            ELSE <<MergedFlat("ChainConfig", a[g][1], b[g][1])>>
     ELSE MergedFlat(typ, a, b)[g]]

\* C30: Unmarshal does not reset its receiver: for two byte strings b1 and b2
\* that each decode, Unmarshal(b1) and then Unmarshal(b2) on one record both
\* succeed and leave it equal to a fresh record after Unmarshal(b1 ++ b2);
\* when b1 and b2 are the bytes of two records, a singular field absent from
\* b2 keeps its b1 value, one present in b2 takes b2's, and a repeated field
\* holds b1's elements followed by b2's.
C30_MergeSemantics ==
  (aux.kind = "merge" /\ pc = "done") =>
    /\ err = ErrNil
    /\ (aux.f = 1 /\ aux.wt = 0) => m = x
    /\ (aux.f = 2 /\ aux.wt = 0) => m = Merged(T, x, aux.exp)
    /\ aux.f = 3 => m = aux.mid

\* ExtraEIPs appended and EvmDenom kept across the two calls
C30_Witness ==
  /\ aux.kind = "merge" /\ pc = "done" /\ aux.f = 3 /\ err = ErrNil
  /\ T = "Params"
  /\ x.ExtraEIPs # <<>> /\ aux.exp.ExtraEIPs # <<>>
  /\ m.ExtraEIPs = x.ExtraEIPs \o aux.exp.ExtraEIPs
  /\ m = aux.mid

====
